---- MODULE Spec2Model ----
(***************************************************************************)
(* Model of the retrieval-and-memory orchestration engine of the          *)
(* Enterprise AI Platform backend (backend/app).                           *)
(*                                                                         *)
(* The persistent state is the relational store: the tables                *)
(* user_memories, conversation_contexts and memory_entries.  Every         *)
(* MemoryService method works on an ORM object loaded into the request's   *)
(* session and ends with `await db.commit()` followed by                   *)
(* `await db.refresh(obj)`.  The JSON columns of the models are declared   *)
(* as plain Column(JSON, default=list|dict) (models/user_memory.py), with  *)
(* no mutation tracking, so the unit of work writes a column only when     *)
(* the attribute itself was assigned (`memory.x = ...`); a change made in  *)
(* place on the loaded list or dict (append, extend, update, item          *)
(* assignment, remove) marks nothing, is left out of the UPDATE, and is    *)
(* discarded by the refresh that reloads the row.  Each action below       *)
(* computes the object as the method body leaves it together with the set  *)
(* of attributes the body assigned, and commits exactly those.             *)
(***************************************************************************)
EXTENDS Integers, Sequences, FiniteSets, TLC

(***************************************************************************)
(* Bounds of the model.                                                    *)
(***************************************************************************)
\* Number of handler invocations in one behaviour of the sequential specs.
MaxCalls == 3

\* Users of the platform (users.id).
Users == {"u1", "u2"}

\* Topics produced by extract_topic and passed to add_frequent_topic.
Topics == {"WC Policies", "Claims"}

\* Arguments of add_conversation_summary.
Resolutions == {"Fixed in staging"}
AdditionalContexts == {[k \in {} |-> "None"], [ticket |-> "T-1"]}

\* A value of the expertise mapping: a list (isinstance(value, list)) or a
\* scalar.
ListValue(items) == [is_list |-> TRUE, value |-> items]
ScalarValue(v) == [is_list |-> FALSE, value |-> v]

\* Arguments of update_domain_expertise: a list of states (the caller in
\* extract_and_store_facts passes {"states_worked": [...]}) and a scalar.
StateLists == {<<"CA">>, <<"NY">>, <<"CA", "NY">>, <<"CA", "CA">>}
ExpertiseInputs ==
    {[states_worked |-> ListValue(l)] : l \in StateLists}
    \cup {[level |-> ScalarValue("senior")]}
    \cup {[states_worked |-> ListValue(<<"NY">>), level |-> ScalarValue("junior")]}

\* Arguments of add_active_project: project dicts.
ProjectInputs ==
    {[name |-> n] : n \in {"Alpha", "Beta"}}
    \cup [name : {"Alpha", "Beta"}, status : {"in_progress", "on_hold"}]

\* Arguments of add_conversation_to_context; an omitted list is empty.
ContextKeys == {"WC_Migration"}

\* title of get_or_create_conversation_context: omitted, or given.
Titles == {"None", "WC Migration"}
ConversationIds == {"conv1", "conv2"}
LinkInputs ==
    {[key_facts |-> <<>>, decisions |-> <<>>, action_items |-> <<>>],
     [key_facts |-> <<"f1">>, decisions |-> <<>>, action_items |-> <<>>],
     [key_facts |-> <<>>, decisions |-> <<"d1">>, action_items |-> <<>>],
     [key_facts |-> <<>>, decisions |-> <<>>, action_items |-> <<"a1">>],
     [key_facts |-> <<"f1", "f2">>, decisions |-> <<"d1">>, action_items |-> <<"a1">>]}

\* Arguments of complete_project: completion_data.
CompletionInputs == {[k \in {} |-> "None"], [outcome |-> "shipped"]}

\* Arguments of update_employee_facts: the items of the facts dict, in the
\* order facts.items() yields them.
FactsInputs ==
    {<< <<"hire_date", "2022-03-15">> >>,
     << <<"hire_date", "2023-01-01">>, <<"role", "lead">> >>}

\* Arguments of update_team_info.
TeamInputs == {[team |-> "Data Conversion"], [team |-> "Claims", manager |-> "John"]}

\* Arguments of add_memory_entry.
EntryInputs ==
    {[category |-> "project", key |-> "wc_rating", value |-> "v1",
      confidence |-> 100, tags |-> <<"a">>],
     [category |-> "project", key |-> "wc_rating", value |-> "v2",
      confidence |-> 60, tags |-> <<"b">>],
     [category |-> "project", key |-> "wc_rating", value |-> "v1",
      confidence |-> 100, tags |-> <<>>],
     [category |-> "domain", key |-> "wc_rating", value |-> "v1",
      confidence |-> 100, tags |-> <<"a", "b">>],
     [category |-> "domain", key |-> "wc_rating", value |-> "v2",
      confidence |-> 60, tags |-> <<"c", "a">>]}

\* current_user.team of the users: a team, or none.
Teams == [u1 |-> "claims", u2 |-> "None"]

\* Messages of a user turn, by what send_message derives from data.content:
\*   topic           extract_topic(content)
\*   project_phrase  "working on" in content or "project" in content
\*   project         the name the regular expression finds after the phrase,
\*                   or none
\*   states          the states mentioned
\*   class_code      the four-digit number found, or none
MessageInputs ==
    {[topic |-> "WC Policies", project_phrase |-> FALSE, project |-> "None",
      states |-> <<>>, class_code |-> "None"],
     [topic |-> "Claims", project_phrase |-> TRUE, project |-> "Alpha",
      states |-> <<"CA">>, class_code |-> "None"],
     [topic |-> "WC Policies", project_phrase |-> TRUE, project |-> "None",
      states |-> <<>>, class_code |-> "8810"]}

\* data.conversation_id of a turn: none, or the id of a row of conversations.
NoConversation == 0
ConversationChoices == {NoConversation, 1}

\* The completion engine answers, or fails.
Engines == {"ok", "fails"}

\* Requests that can be in flight at the same time.
Requests == {"r1", "r2"}

\* top_k of a search: the largest value requested, and the encoding of
\* top_k=None (the parameter was not supplied).
MaxTopK == 2
NoTopK == -1
TopKs == (0..MaxTopK) \cup {NoTopK}

\* Similarities, in hundredths.  NoEmbedding: dc.embedding IS NULL;
\* NoMatch: dc.content ILIKE :query is false.
NoEmbedding == -100
NoMatch == -100
EmbeddingSimilarities == {NoEmbedding, 60, 80, 90}
TextSimilarities == {NoMatch, 0, 90}

\* filters of a search.
FilterInputs ==
    {[k \in {} |-> "None"],
     [team |-> "claims"],
     [team |-> "underwriting"],
     [document_type |-> "application/pdf"],
     [tags |-> {"wc"}],
     [team |-> "claims", document_type |-> "application/pdf", tags |-> {"wc"}]}

\* What goes wrong during a search: the embedding request raises, or
\* answers without an embedding, or a chunk store query raises.
Faults == {"none", "embedding_raises", "embedding_empty", "vector_query_fails",
           "keyword_query_fails", "both_queries_fail"}

(***************************************************************************)
(* Program constants.                                                      *)
(***************************************************************************)
\* `if len(memory.frequent_topics) > 20` / `[-20:]`
MaxFrequentTopics == 20

\* `if len(memory.conversation_summaries) > 50` / `[-50:]`
MaxSummaries == 50

\* add_memory_entry(..., confidence: int = 100, ...)
DefaultConfidence == 100

\* VECTOR_SEARCH_TOP_K: int = 5
DefaultTopK == 5

\* VECTOR_SEARCH_SIMILARITY_THRESHOLD: float = 0.7, in hundredths
SimilarityThreshold == 70

\* `float(row.similarity) if row.similarity else 0.5`, in hundredths
KeywordFallback == 50

(***************************************************************************)
(* Python list and dict primitives used by the services.                   *)
(***************************************************************************)
Range(s) == {s[i] : i \in 1..Len(s)}

\* s[-n:]
LastN(s, n) == IF Len(s) > n THEN SubSeq(s, Len(s) - n + 1, Len(s)) ELSE s

\* The orders in which list(set) may enumerate the set S.
ListsOfSet(S) == {s \in [1..Cardinality(S) -> S] : Range(s) = S}

\* d.get(k): the value, or None.
None == "None"
DictGet(d, k) == IF k \in DOMAIN d THEN d[k] ELSE None

\* d.update(e)
DictUpdate(d, e) ==
    [k \in DOMAIN d \cup DOMAIN e |-> IF k \in DOMAIN e THEN e[k] ELSE d[k]]

\* {}
EmptyDict == [k \in {} |-> None]

\* The dict with the given items.
DictOfItems(items) ==
    [k \in {items[i][1] : i \in 1..Len(items)} |->
        LET last == CHOOSE i \in 1..Len(items) :
                        /\ items[i][1] = k
                        /\ \A j \in (i + 1)..Len(items) : items[j][1] # k
        IN  items[last][2]]

\* str(value): the text of the value.
Str(v) == <<"str", v>>

\* datetime.utcnow().isoformat(): the time of the call.
UtcNow == "utcnow"

VARIABLES
    user_memories,          \* table user_memories: user_id (unique) -> row
    user_memory_ids,        \* table user_memories: the user_id of each row inserted
    memory_entries,         \* table memory_entries: row id -> row
    conversation_contexts,  \* table conversation_contexts: row id -> row
    calls,                  \* the handler invocations made so far, oldest first
    sessions,               \* per request in flight: the ORM object its session holds
    document_chunks,        \* tables document_chunks / documents as one query sees them
    search,                 \* the hybrid_search call made and its outcome
    conversations,          \* table conversations: row id -> row
    messages,               \* table messages: row id -> row
    turn,                   \* the send_message request handled last and its outcome
    generation,             \* the generate_with_context call made and its outcome
    memory_context,         \* the get_memory_context_for_llm call made last and its outcome
    entity_nodes,           \* the ids of the Entity nodes in the graph store
    graph,                  \* the relationships between Entity nodes in the graph store
    path                    \* the get_entity_path request handled last and its outcome

vars == <<user_memories, user_memory_ids, memory_entries, conversation_contexts,
          calls, sessions, document_chunks, search, conversations, messages,
          turn, generation, memory_context, entity_nodes, graph, path>>

\* The state of the chat endpoints and of the knowledge graph endpoints.
chatVars == <<conversations, messages, turn, generation, memory_context>>

(***************************************************************************)
(* models/user_memory.py: UserMemory, the column defaults of a new row.    *)
(***************************************************************************)
NewUserMemory ==
    [employee_facts         |-> EmptyDict,
     team_info              |-> EmptyDict,
     company_knowledge      |-> EmptyDict,
     active_projects        |-> <<>>,
     project_history        |-> <<>>,
     conversation_summaries |-> <<>>,
     domain_expertise       |-> EmptyDict,
     tech_preferences       |-> EmptyDict,
     learning_progress      |-> EmptyDict,
     frequent_topics        |-> <<>>,
     custom_notes           |-> None,
     total_conversations    |-> 0,
     total_messages         |-> 0]

\* get_or_create_user_memory: the row of the user, inserted with the
\* defaults (commit, refresh) when the select finds none.
GetOrCreateUserMemory(table, u) ==
    IF u \in DOMAIN table THEN table[u] ELSE NewUserMemory

\* db.commit(): the UPDATE carries the attributes that were assigned on the
\* loaded object; every other column keeps its stored value.
\* db.refresh(): the object is reloaded from the row just written, so the
\* row is also what the method returns.
Commit(row, obj, assigned) ==
    [f \in DOMAIN row |-> IF f \in assigned THEN obj[f] ELSE row[f]]

\* The user_id column after get_or_create_user_memory ran to completion for
\* user u with no other request in between: a row is inserted when the select
\* finds none.
InsertedUserMemory(ids, u) ==
    IF \E i \in 1..Len(ids) : ids[i] = u THEN ids ELSE Append(ids, u)

\* Nothing was requested yet.
NoTurn == [state |-> "none"]
NoPath == [state |-> "none"]
NoGeneration == [state |-> "none"]
NoMemoryContext == [state |-> "none"]

\* The table after the row of user u is written.
PutRow(table, u, row) ==
    [x \in DOMAIN table \cup {u} |-> IF x = u THEN row ELSE table[x]]

\* A handler invocation that runs to completion before the next one starts.
Handled(op, u, arg) ==
    /\ Len(calls) < MaxCalls
    /\ calls' = Append(calls, [op |-> op, user |-> u, arg |-> arg])
    /\ UNCHANGED <<sessions, document_chunks, search, chatVars, entity_nodes, graph, path>>

(***************************************************************************)
(* MemoryService.add_frequent_topic                                        *)
(***************************************************************************)
\* The body of add_frequent_topic on the loaded object: the object as the
\* body leaves it and the attributes it assigned.
FrequentTopicUpdate(memory, topic) ==
    LET stored   == memory.frequent_topics
        \* if not memory.frequent_topics: memory.frequent_topics = []
        fresh    == stored = <<>>
        isNew    == topic \notin Range(stored)
        \* memory.frequent_topics.append(topic)
        appended == IF isNew THEN Append(stored, topic) ELSE stored
        \* memory.frequent_topics = memory.frequent_topics[-20:]
        capped   == isNew /\ Len(appended) > MaxFrequentTopics
        topics   == IF capped THEN LastN(appended, MaxFrequentTopics)
                    ELSE appended
    IN  [obj      |-> [memory EXCEPT !.frequent_topics = topics],
         assigned |-> IF fresh \/ capped THEN {"frequent_topics"} ELSE {}]

AddFrequentTopic(u, topic) ==
    LET memory == GetOrCreateUserMemory(user_memories, u)
        update == FrequentTopicUpdate(memory, topic)
    IN  /\ Handled("add_frequent_topic", u, topic)
        /\ user_memories' =
              PutRow(user_memories, u, Commit(memory, update.obj, update.assigned))
        /\ user_memory_ids' = InsertedUserMemory(user_memory_ids, u)
        /\ UNCHANGED <<memory_entries, conversation_contexts>>

(***************************************************************************)
(* MemoryService.add_conversation_summary                                  *)
(***************************************************************************)
\* The summary dict built from the arguments: topic and resolution,
\* overridden by additional_context when one is given.
Summary(topic, resolution, additional_context) ==
    DictUpdate([topic |-> topic, resolution |-> resolution], additional_context)

AddConversationSummary(u, topic, resolution, additional_context) ==
    LET memory   == GetOrCreateUserMemory(user_memories, u)
        stored   == memory.conversation_summaries
        summary  == Summary(topic, resolution, additional_context)
        \* if not memory.conversation_summaries: memory.conversation_summaries = []
        fresh    == stored = <<>>
        \* memory.conversation_summaries.append(summary)
        appended == Append(stored, summary)
        \* memory.conversation_summaries = memory.conversation_summaries[-50:]
        capped   == Len(appended) > MaxSummaries
        result   == IF capped THEN LastN(appended, MaxSummaries) ELSE appended
        assigned == IF fresh \/ capped THEN {"conversation_summaries"} ELSE {}
        obj      == [memory EXCEPT !.conversation_summaries = result]
    IN  /\ Handled("add_conversation_summary", u, summary)
        /\ user_memories' = PutRow(user_memories, u, Commit(memory, obj, assigned))
        /\ user_memory_ids' = InsertedUserMemory(user_memory_ids, u)
        /\ UNCHANGED <<memory_entries, conversation_contexts>>

(***************************************************************************)
(* MemoryService.update_domain_expertise                                   *)
(***************************************************************************)
\* The values one key can hold after the loop body ran for it:
\*   existing = set(memory.domain_expertise[key]); existing.update(value)
\*   memory.domain_expertise[key] = list(existing)
\* for a list passed for a key already present, in any order the set
\* enumerates; otherwise memory.domain_expertise[key] = value as passed.
MergedValues(stored, expertise, key) ==
    IF key \notin DOMAIN expertise THEN {stored[key]}
    ELSE IF expertise[key].is_list /\ key \in DOMAIN stored
    THEN {ListValue(l) :
            l \in ListsOfSet(Range(stored[key].value) \cup Range(expertise[key].value))}
    ELSE {expertise[key]}

\* The mappings the loop over expertise.items() can leave.
MergedExpertise(stored, expertise) ==
    LET keys == DOMAIN stored \cup DOMAIN expertise
        vals == UNION {MergedValues(stored, expertise, k) : k \in keys}
    IN  {d \in [keys -> vals] :
            \A k \in keys : d[k] \in MergedValues(stored, expertise, k)}

\* The rows update_domain_expertise can leave for the loaded object.
DomainExpertiseRows(memory, expertise) ==
    LET stored   == memory.domain_expertise
        \* if not memory.domain_expertise: memory.domain_expertise = {}
        fresh    == stored = EmptyDict
        assigned == IF fresh THEN {"domain_expertise"} ELSE {}
    IN  {Commit(memory, [memory EXCEPT !.domain_expertise = merged], assigned) :
            merged \in MergedExpertise(stored, expertise)}

UpdateDomainExpertise(u, expertise) ==
    LET memory == GetOrCreateUserMemory(user_memories, u)
    IN  /\ Handled("update_domain_expertise", u, expertise)
        /\ \E row \in DomainExpertiseRows(memory, expertise) :
              user_memories' = PutRow(user_memories, u, row)
        /\ user_memory_ids' = InsertedUserMemory(user_memory_ids, u)
        /\ UNCHANGED <<memory_entries, conversation_contexts>>

(***************************************************************************)
(* MemoryService.add_memory_entry                                          *)
(***************************************************************************)
\* json.dumps(project): the text of the dict.
JsonDumps(d) == <<"json", d>>

\* Rows selected by (user_id, category, key).
EntryIds(table, u, category, key) ==
    {i \in DOMAIN table : /\ table[i].user_id = u
                          /\ table[i].category = category
                          /\ table[i].key = key}

\* The tables add_memory_entry can leave.  An existing row gets the new
\* value and confidence and, when tags are given,
\* tags = list(set(existing.tags).union(tags)) in any order; otherwise a row
\* is inserted.  scalar_one_or_none raises when several rows match, before
\* anything is written.
AddMemoryEntryAlwaysInsert(table, u, category, key, value, confidence, tags) ==
    {Append(table, [user_id |-> u, category |-> category, key |-> key,
                    value |-> value, confidence |-> confidence, tags |-> tags])}

AddMemoryEntry(table, u, category, key, value, confidence, tags) ==
    LET ids == EntryIds(table, u, category, key)
    IN  IF ids = {}
        THEN {Append(table, [user_id |-> u, category |-> category, key |-> key,
                             value |-> value, confidence |-> confidence,
                             tags |-> tags])}
        ELSE IF Cardinality(ids) > 1 THEN {table}
        ELSE LET i == CHOOSE x \in ids : TRUE
                 newTags == IF tags # <<>>
                            THEN ListsOfSet(Range(table[i].tags) \cup Range(tags))
                            ELSE {table[i].tags}
             IN  {[table EXCEPT ![i] = [@ EXCEPT !.value = value,
                                                 !.confidence = confidence,
                                                 !.tags = l]] : l \in newTags}

\* A call of add_memory_entry (the endpoint update_user_memory passes the
\* category, key, value and tags of the request).
AddMemoryEntryCall(u, entry) ==
    /\ Handled("add_memory_entry", u, entry)
    /\ memory_entries' \in
          AddMemoryEntry(memory_entries, u, entry.category, entry.key,
                         entry.value, entry.confidence, entry.tags)
    /\ UNCHANGED <<user_memories, user_memory_ids, conversation_contexts>>

(***************************************************************************)
(* MemoryService.add_active_project                                        *)
(***************************************************************************)
\* Index of next(p for p in projects if p.get('name') == name), 0 if none.
FirstNamed(projects, name) ==
    LET hits == {i \in 1..Len(projects) : DictGet(projects[i], "name") = name}
    IN  IF hits = {} THEN 0 ELSE CHOOSE i \in hits : \A j \in hits : i <= j

\* The row add_active_project leaves for the loaded object.
ActiveProjectRow(memory, project) ==
    LET stored   == memory.active_projects
        \* if not memory.active_projects: memory.active_projects = []
        fresh    == stored = <<>>
        name     == DictGet(project, "name")
        found    == FirstNamed(stored, name)
        \* `if existing:` is the truth value of the dict found
        existing == found # 0 /\ DOMAIN stored[found] # {}
        \* existing.update(project)  /  memory.active_projects.append(project)
        projects == IF existing
                    THEN [stored EXCEPT ![found] = DictUpdate(@, project)]
                    ELSE Append(stored, project)
        assigned == IF fresh THEN {"active_projects"} ELSE {}
        obj      == [memory EXCEPT !.active_projects = projects]
    IN  Commit(memory, obj, assigned)

\* The memory_entries tables add_active_project can leave.
ActiveProjectEntries(table, u, project) ==
    AddMemoryEntry(table, u, "project",
                   "active_project_" \o DictGet(project, "name"),
                   JsonDumps(project), DefaultConfidence, <<"project", "active">>)

AddActiveProject(u, project) ==
    LET memory == GetOrCreateUserMemory(user_memories, u)
    IN  /\ Handled("add_active_project", u, project)
        /\ user_memories' = PutRow(user_memories, u, ActiveProjectRow(memory, project))
        /\ memory_entries' \in ActiveProjectEntries(memory_entries, u, project)
        /\ user_memory_ids' = InsertedUserMemory(user_memory_ids, u)
        /\ UNCHANGED conversation_contexts

(***************************************************************************)
(* MemoryService.complete_project                                          *)
(***************************************************************************)
\* The body of complete_project on the loaded object.  memory.active_projects
\* is assigned only when it is empty; the project found is taken out with
\* memory.active_projects.remove(project) and added with
\* memory.project_history.append(project), both in place, and
\* memory.project_history is assigned only when it is empty.
CompleteProjectUpdate(memory, project_name, completion_data) ==
    LET stored   == memory.active_projects
        history  == memory.project_history
        found    == FirstNamed(stored, project_name)
        \* `if project:` is the truth value of the dict found
        project  == found # 0 /\ DOMAIN stored[found] # {}
        removed  == [i \in 1..(Len(stored) - 1) |->
                        IF i < found THEN stored[i] ELSE stored[i + 1]]
        \* project.update(completion_data); project['completed_at'] = ...
        done     == DictUpdate(DictUpdate(stored[found], completion_data),
                               [completed_at |-> UtcNow])
    IN  [obj |-> IF project
                 THEN [memory EXCEPT !.active_projects = removed,
                                     !.project_history = Append(history, done)]
                 ELSE memory,
         assigned |-> (IF stored = <<>> THEN {"active_projects"} ELSE {})
                      \cup (IF project /\ history = <<>>
                            THEN {"project_history"} ELSE {})]

CompleteProject(u, project_name, completion_data) ==
    LET memory == GetOrCreateUserMemory(user_memories, u)
        update == CompleteProjectUpdate(memory, project_name, completion_data)
    IN  /\ Handled("complete_project", u,
                   [name |-> project_name, completion_data |-> completion_data])
        /\ user_memories' =
              PutRow(user_memories, u, Commit(memory, update.obj, update.assigned))
        /\ user_memory_ids' = InsertedUserMemory(user_memory_ids, u)
        /\ UNCHANGED <<memory_entries, conversation_contexts>>

(***************************************************************************)
(* MemoryService.update_employee_facts and MemoryService.update_team_info  *)
(***************************************************************************)
\* The loop `for key, value in facts.items(): add_memory_entry(db, user_id,
\* "employee", key, str(value), tags=["employee", "profile"])`: the tables it
\* can leave, starting from any of the given tables.
RECURSIVE AddFactEntries(_, _, _)
AddFactEntries(tables, u, items) ==
    IF items = <<>> THEN tables
    ELSE AddFactEntries(
             UNION {AddMemoryEntry(t, u, "employee", items[1][1], Str(items[1][2]),
                                   DefaultConfidence, <<"employee", "profile">>) :
                       t \in tables},
             u, Tail(items))

UpdateEmployeeFacts(u, items) ==
    LET memory   == GetOrCreateUserMemory(user_memories, u)
        facts    == DictOfItems(items)
        \* if not memory.employee_facts: memory.employee_facts = {}
        assigned == IF memory.employee_facts = EmptyDict
                    THEN {"employee_facts"} ELSE {}
        \* memory.employee_facts.update(facts)
        obj      == [memory EXCEPT !.employee_facts = DictUpdate(@, facts)]
    IN  /\ Handled("update_employee_facts", u, facts)
        /\ user_memories' = PutRow(user_memories, u, Commit(memory, obj, assigned))
        /\ user_memory_ids' = InsertedUserMemory(user_memory_ids, u)
        /\ memory_entries' \in AddFactEntries({memory_entries}, u, items)
        /\ UNCHANGED conversation_contexts

UpdateTeamInfo(u, team_info) ==
    LET memory == GetOrCreateUserMemory(user_memories, u)
        \* memory.team_info = team_info
        obj    == [memory EXCEPT !.team_info = team_info]
    IN  /\ Handled("update_team_info", u, team_info)
        /\ user_memories' =
              PutRow(user_memories, u, Commit(memory, obj, {"team_info"}))
        /\ user_memory_ids' = InsertedUserMemory(user_memory_ids, u)
        /\ UNCHANGED <<memory_entries, conversation_contexts>>

(***************************************************************************)
(* MemoryService.get_or_create_conversation_context and                    *)
(* MemoryService.add_conversation_to_context                               *)
(***************************************************************************)
\* Rows selected by context_key alone, whoever the user is.
ContextIdsOfAnyUser(table, u, context_key) ==
    {i \in DOMAIN table : table[i].context_key = context_key}

\* Rows selected by (user_id, context_key).
ContextIds(table, u, context_key) ==
    {i \in DOMAIN table : /\ table[i].user_id = u
                          /\ table[i].context_key = context_key}

\* ConversationContext(user_id, context_type, context_key, title=title or
\* context_key) with the column defaults.
NewConversationContext(u, context_type, context_key, title) ==
    [user_id          |-> u,
     context_type     |-> context_type,
     context_key      |-> context_key,
     title            |-> IF title = None THEN context_key ELSE title,
     conversation_ids |-> <<>>,
     key_facts        |-> <<>>,
     decisions_made   |-> <<>>,
     action_items     |-> <<>>]

\* The table after get_or_create_conversation_context: the row is inserted
\* (commit, refresh) when the select finds none.
GetOrCreateConversationContext(table, u, context_key, context_type, title) ==
    IF ContextIds(table, u, context_key) = {}
    THEN Append(table, NewConversationContext(u, context_type, context_key, title))
    ELSE table

\* The body of add_conversation_to_context on the loaded object: the object
\* as the body leaves it and the attributes it assigned.
ConversationLinkUpdate(context, conversation_id, key_facts, decisions, action_items) ==
    LET \* if not context.conversation_ids: context.conversation_ids = []
        \* if str(conversation_id) not in ...: ....append(str(conversation_id))
        convIds  == IF conversation_id \in Range(context.conversation_ids)
                    THEN context.conversation_ids
                    ELSE Append(context.conversation_ids, conversation_id)
        \* if key_facts: (if not context.key_facts: context.key_facts = [])
        \*               context.key_facts.extend(key_facts)
        obj      == [context EXCEPT !.conversation_ids = convIds,
                                    !.key_facts = @ \o key_facts,
                                    !.decisions_made = @ \o decisions,
                                    !.action_items = @ \o action_items]
    IN  [obj |-> obj,
         assigned |->
            (IF context.conversation_ids = <<>> THEN {"conversation_ids"} ELSE {})
            \cup (IF key_facts # <<>> /\ context.key_facts = <<>>
                  THEN {"key_facts"} ELSE {})
            \cup (IF decisions # <<>> /\ context.decisions_made = <<>>
                  THEN {"decisions_made"} ELSE {})
            \cup (IF action_items # <<>> /\ context.action_items = <<>>
                  THEN {"action_items"} ELSE {})]

AddConversationToContext(u, context_key, conversation_id, key_facts, decisions, action_items) ==
    LET table    == GetOrCreateConversationContext(conversation_contexts, u,
                                                   context_key, "project", None)
        ids      == ContextIds(table, u, context_key)
        id       == CHOOSE i \in ids : TRUE
        context  == table[id]
        update   == ConversationLinkUpdate(context, conversation_id, key_facts,
                                           decisions, action_items)
    IN  /\ Handled("add_conversation_to_context", u,
                  [context_key |-> context_key, conversation_id |-> conversation_id,
                   key_facts |-> key_facts, decisions |-> decisions,
                   action_items |-> action_items])
        \* scalar_one_or_none raises when several rows match
        /\ conversation_contexts' =
              IF Cardinality(ids) > 1 THEN conversation_contexts
              ELSE [table EXCEPT ![id] = Commit(context, update.obj, update.assigned)]
        /\ UNCHANGED <<user_memories, user_memory_ids, memory_entries>>

(***************************************************************************)
(* Requests of one user that overlap.  A request reads the profile row     *)
(* into its session (get_or_create_user_memory), adds one to a counter of  *)
(* the loaded object and commits; other requests may commit between the    *)
(* read and the write.  The UPDATE sets the column to the value computed   *)
(* from the loaded object.                                                 *)
(*   record_interaction:   memory.total_messages += 1; commit              *)
(*   create_conversation:  memory.total_conversations += 1; commit         *)
(*   send_message (new conversation): memory.total_conversations += 1,     *)
(*       then record_interaction on the same loaded object; one commit     *)
(***************************************************************************)
Idle == [pc |-> "idle"]

\* The counters each kind of request assigns.
CounterWrites ==
    [record_interaction  |-> {"total_messages"},
     create_conversation |-> {"total_conversations"},
     send_message        |-> {"total_conversations", "total_messages"}]

RequestKinds == DOMAIN CounterWrites

\* get_or_create_user_memory in request r: the select, and the insert of a
\* row with the defaults when there is none.
LoadMemory(r, kind, u) ==
    /\ sessions[r] = Idle
    /\ Len(calls) < MaxCalls
    /\ calls' = Append(calls, [op |-> kind, user |-> u, arg |-> r])
    /\ LET memory == GetOrCreateUserMemory(user_memories, u)
       IN  /\ user_memories' = PutRow(user_memories, u, memory)
           /\ sessions' = [sessions EXCEPT ![r] =
                  [pc |-> "loaded", kind |-> kind, user |-> u, memory |-> memory]]
    /\ user_memory_ids' = InsertedUserMemory(user_memory_ids, u)
    /\ UNCHANGED <<memory_entries, conversation_contexts, document_chunks, search,
                   chatVars, entity_nodes, graph, path>>

\* `memory.<counter> += 1` on the loaded object, then `await db.commit()`.
CommitCounters(r) ==
    /\ sessions[r].pc = "loaded"
    /\ LET u        == sessions[r].user
           memory   == sessions[r].memory
           assigned == CounterWrites[sessions[r].kind]
           obj      == [memory EXCEPT
                          !.total_messages = @ + 1,
                          !.total_conversations = @ + 1]
       IN  user_memories' =
               PutRow(user_memories, u, Commit(user_memories[u], obj, assigned))
    /\ sessions' = [sessions EXCEPT ![r] = Idle]
    /\ UNCHANGED <<user_memory_ids, memory_entries, conversation_contexts, calls,
                   document_chunks, search, chatVars, entity_nodes, graph, path>>

(***************************************************************************)
(* Requests that overlap inside get_or_create_user_memory and              *)
(* add_frequent_topic.  Every `await` of a handler is a point where        *)
(* another request can run: between the select of                          *)
(* get_or_create_user_memory and its insert, and between the load of the   *)
(* profile and the commit of add_frequent_topic.                           *)
(***************************************************************************)
\* INSERT INTO user_memories under the unique constraint on user_id
\* (user_id = Column(..., unique=True)): a second row for a user is refused
\* with an IntegrityError.
InsertUserMemoryWithoutUnique(ids, u) ==
    [raised |-> FALSE, ids |-> Append(ids, u)]

InsertUserMemory(ids, u) ==
    IF \E i \in 1..Len(ids) : ids[i] = u
    THEN [raised |-> TRUE, ids |-> ids]
    ELSE [raised |-> FALSE, ids |-> Append(ids, u)]

\* The requests that hold user u's profile, or are about to insert it.
InFlight(u) ==
    {q \in Requests : /\ sessions[q].pc \in {"selected", "profile_loaded"}
                      /\ sessions[q].user = u}

\* add_frequent_topic, request r: the select of get_or_create_user_memory.
SelectUserMemory(r, u, topic) ==
    /\ sessions[r] = Idle
    /\ Len(calls) < MaxCalls
    /\ calls' = Append(calls, [op |-> "add_frequent_topic", user |-> u, arg |-> topic])
    /\ sessions' = [sessions EXCEPT ![r] =
           IF u \in DOMAIN user_memories
           THEN [pc |-> "profile_loaded", user |-> u, topic |-> topic,
                 memory |-> user_memories[u], created |-> FALSE,
                 overlapped |-> InFlight(u)]
           ELSE [pc |-> "selected", user |-> u, topic |-> topic,
                 overlapped |-> InFlight(u)]]
    /\ UNCHANGED <<user_memories, user_memory_ids, memory_entries,
                   conversation_contexts, document_chunks, search, chatVars, entity_nodes, graph, path>>

\* `if not memory:` memory = UserMemory(user_id=user_id); db.add; commit;
\* refresh.  The IntegrityError of the insert leaves the handler.
CreateUserMemory(r) ==
    /\ sessions[r].pc = "selected"
    /\ LET u        == sessions[r].user
           inserted == InsertUserMemory(user_memory_ids, u)
       IN  IF inserted.raised
           THEN /\ sessions' = [sessions EXCEPT ![r] =
                       [pc |-> "done", status |-> "error", user |-> u,
                        topic |-> sessions[r].topic, created |-> FALSE,
                        overlapped |-> sessions[r].overlapped]]
                /\ UNCHANGED <<user_memories, user_memory_ids>>
           ELSE /\ user_memory_ids' = inserted.ids
                /\ user_memories' =
                       IF u \in DOMAIN user_memories THEN user_memories
                       ELSE PutRow(user_memories, u, NewUserMemory)
                /\ sessions' = [sessions EXCEPT ![r] =
                       [pc |-> "profile_loaded", user |-> u,
                        topic |-> sessions[r].topic, memory |-> NewUserMemory,
                        created |-> TRUE, overlapped |-> sessions[r].overlapped]]
    /\ UNCHANGED <<memory_entries, conversation_contexts, calls, document_chunks,
                   search, chatVars, entity_nodes, graph, path>>

\* The rest of add_frequent_topic on the object request r loaded, with a
\* version check added to the UPDATE: a row changed since the load raises.
CommitFrequentTopicVersionChecked(r) ==
    /\ sessions[r].pc = "profile_loaded"
    /\ LET u      == sessions[r].user
           memory == sessions[r].memory
           update == FrequentTopicUpdate(memory, sessions[r].topic)
           stale  == user_memories[u] # memory
           row    == Commit(user_memories[u], update.obj, update.assigned)
       IN  /\ user_memories' =
                  IF stale THEN user_memories ELSE PutRow(user_memories, u, row)
           /\ sessions' = [sessions EXCEPT ![r] =
                  [pc |-> "done", status |-> IF stale THEN "error" ELSE "ok",
                   user |-> u, topic |-> sessions[r].topic,
                   memory |-> memory, created |-> sessions[r].created,
                   overlapped |-> sessions[r].overlapped]]
    /\ UNCHANGED <<user_memory_ids, memory_entries, conversation_contexts, calls,
                   document_chunks, search, chatVars, entity_nodes, graph, path>>

\* The rest of add_frequent_topic on the object request r loaded: the body,
\* then commit (UPDATE ... WHERE id = :id of the attributes assigned) and
\* refresh.  Nothing compares the row with what the request loaded.
CommitFrequentTopic(r) ==
    /\ sessions[r].pc = "profile_loaded"
    /\ LET u      == sessions[r].user
           memory == sessions[r].memory
           update == FrequentTopicUpdate(memory, sessions[r].topic)
           row    == Commit(user_memories[u], update.obj, update.assigned)
       IN  /\ user_memories' = PutRow(user_memories, u, row)
           /\ sessions' = [sessions EXCEPT ![r] =
                  [pc |-> "done", status |-> "ok", user |-> u,
                   topic |-> sessions[r].topic, memory |-> memory,
                   created |-> sessions[r].created,
                   overlapped |-> sessions[r].overlapped]]
    /\ UNCHANGED <<user_memory_ids, memory_entries, conversation_contexts, calls,
                   document_chunks, search, chatVars, entity_nodes, graph, path>>

\* The response of request r is sent; the request is over.
Respond(r) ==
    /\ sessions[r].pc = "done"
    /\ sessions' = [q \in Requests |->
           IF q = r THEN Idle
           ELSE IF "overlapped" \in DOMAIN sessions[q]
                THEN [sessions[q] EXCEPT !.overlapped = @ \ {r}]
                ELSE sessions[q]]
    /\ UNCHANGED <<user_memories, user_memory_ids, memory_entries,
                   conversation_contexts, calls, document_chunks, search,
                   chatVars, entity_nodes, graph, path>>

(***************************************************************************)
(* Requests that overlap inside get_or_create_conversation_context.  It is *)
(* called by the context endpoints (with a title), by                      *)
(* add_conversation_to_context and by get_memory_context_for_llm; another  *)
(* request can run between its select and its insert.                      *)
(***************************************************************************)
\* The callers of get_or_create_conversation_context with what they pass:
\* the context endpoints a title, add_conversation_to_context and
\* get_memory_context_for_llm none (title=None).
ContextRequests ==
    [kind : {"get_or_create"}, title : Titles, conversation_id : {None}]
    \cup [kind : {"link"}, title : {None}, conversation_id : ConversationIds]
    \cup [kind : {"assemble"}, title : {None}, conversation_id : {None}]

\* get_or_create_conversation_context, request r: the select.
\* scalar_one_or_none raises when several rows match.
SelectContext(r, u, context_key, caller) ==
    /\ sessions[r] = Idle
    /\ Len(calls) < MaxCalls
    /\ calls' = Append(calls, [op |-> caller.kind, user |-> u, arg |-> context_key])
    /\ LET ids == ContextIds(conversation_contexts, u, context_key)
           request == [kind |-> caller.kind, user |-> u, context_key |-> context_key,
                       title |-> caller.title,
                       conversation_id |-> caller.conversation_id]
       IN  sessions' = [sessions EXCEPT ![r] =
               IF ids = {}
               THEN [pc |-> "context_selected", request |-> request]
               ELSE IF Cardinality(ids) > 1
               THEN [pc |-> "context_done", status |-> "error", request |-> request]
               ELSE [pc |-> "context_loaded", request |-> request,
                     id |-> CHOOSE i \in ids : TRUE, created |-> FALSE]]
    /\ UNCHANGED <<user_memories, user_memory_ids, memory_entries,
                   conversation_contexts, document_chunks, search, chatVars, entity_nodes, graph, path>>

\* `if not context:` context = ConversationContext(...); db.add; commit;
\* refresh.  The table has no unique constraint on (user_id, context_key),
\* so the insert is accepted whatever rows exist.
CreateContext(r) ==
    /\ sessions[r].pc = "context_selected"
    /\ LET request == sessions[r].request
       IN  /\ conversation_contexts' =
                  Append(conversation_contexts,
                         NewConversationContext(request.user, "project",
                                                request.context_key, request.title))
           /\ sessions' = [sessions EXCEPT ![r] =
                  [pc |-> "context_loaded", request |-> request,
                   id |-> Len(conversation_contexts) + 1, created |-> TRUE]]
    /\ UNCHANGED <<user_memories, user_memory_ids, memory_entries, calls,
                   document_chunks, search, chatVars, entity_nodes, graph, path>>

\* What the caller does with the context returned: add_conversation_to_context
\* runs its body and commits; the other callers only read it.
FinishContext(r) ==
    /\ sessions[r].pc = "context_loaded"
    /\ LET request == sessions[r].request
           id      == sessions[r].id
           context == conversation_contexts[id]
           update  == ConversationLinkUpdate(context, request.conversation_id,
                                             <<>>, <<>>, <<>>)
       IN  conversation_contexts' =
               IF request.kind = "link"
               THEN [conversation_contexts EXCEPT
                        ![id] = Commit(context, update.obj, update.assigned)]
               ELSE conversation_contexts
    /\ sessions' = [sessions EXCEPT ![r] =
           [pc |-> "context_done", status |-> "ok", request |-> sessions[r].request]]
    /\ UNCHANGED <<user_memories, user_memory_ids, memory_entries, calls,
                   document_chunks, search, chatVars, entity_nodes, graph, path>>

\* The response of request r is sent; the request is over.
RespondContext(r) ==
    /\ sessions[r].pc = "context_done"
    /\ sessions' = [sessions EXCEPT ![r] = Idle]
    /\ UNCHANGED <<user_memories, user_memory_ids, memory_entries,
                   conversation_contexts, calls, document_chunks, search,
                   chatVars, entity_nodes, graph, path>>

(***************************************************************************)
(* RAGService: search_documents, keyword_search, hybrid_search             *)
(***************************************************************************)
\* The documents table: one document per chunk.
Documents ==
    [c1 |-> [document_id |-> "d1", mime_type |-> "application/pdf",
             tags |-> {"wc"}, team_access |-> {"claims"}, is_public |-> FALSE],
     c2 |-> [document_id |-> "d2", mime_type |-> "application/pdf",
             tags |-> {"wc", "hr"}, team_access |-> {"underwriting"},
             is_public |-> FALSE],
     c3 |-> [document_id |-> "d3", mime_type |-> "text/plain",
             tags |-> {"hr"}, team_access |-> {}, is_public |-> TRUE]]

Chunks == DOMAIN Documents

\* `top_k or self.top_k`
EffectiveTopK(top_k) == IF top_k = NoTopK \/ top_k = 0 THEN DefaultTopK ELSE top_k

\* s[:n]
Take(s, n) == SubSeq(s, 1, IF n < Len(s) THEN n ELSE Len(s))

\* The WHERE conditions search_documents adds for the filters.
VectorFilter(doc, filters) ==
    /\ "document_type" \in DOMAIN filters => doc.mime_type = filters.document_type
    /\ "tags" \in DOMAIN filters => doc.tags \cap filters.tags # {}
    /\ "team" \in DOMAIN filters =>
           filters.team \in doc.team_access \/ doc.is_public

\* The WHERE conditions keyword_search adds for the filters.
KeywordFilter(doc, filters) ==
    /\ "document_type" \in DOMAIN filters => doc.mime_type = filters.document_type
    /\ "tags" \in DOMAIN filters => doc.tags \cap filters.tags # {}

\* ORDER BY ... LIMIT: the rows of S by descending key, rows of equal key in
\* any order, cut to the limit.
OrderedLimited(S, key, limit) ==
    {Take(l, limit) :
        l \in {m \in ListsOfSet(S) :
                  \A i, j \in 1..Len(m) : i < j => key[m[i]] >= key[m[j]]}}

\* search_documents: the lists it can return, or the exception of
\* get_embeddings, which is called outside the try block.
SearchDocuments(store, top_k, filters, fault) ==
    IF fault = "embedding_raises" THEN {[raised |-> TRUE, rows |-> <<>>]}
    \* `if not embeddings or not embeddings[0]: return []`
    ELSE IF fault = "embedding_empty" THEN {[raised |-> FALSE, rows |-> <<>>]}
    \* `except Exception: return []`
    ELSE IF fault \in {"vector_query_fails", "both_queries_fail"}
    THEN {[raised |-> FALSE, rows |-> <<>>]}
    ELSE LET hits == {c \in Chunks :
                         /\ store[c].embedding_similarity # NoEmbedding
                         /\ store[c].embedding_similarity > SimilarityThreshold
                         /\ VectorFilter(Documents[c], filters)}
             Sim == [c \in hits |-> store[c].embedding_similarity]
         IN  {[raised |-> FALSE,
               rows |-> [i \in 1..Len(l) |->
                           [chunk_id |-> l[i],
                            document_id |-> Documents[l[i]].document_id,
                            similarity |-> Sim[l[i]]]]] :
                 l \in OrderedLimited(hits, Sim, EffectiveTopK(top_k))}

\* keyword_search: the lists it can return.
KeywordSearch(store, top_k, filters, fault) ==
    IF fault \in {"keyword_query_fails", "both_queries_fail"} THEN {<<>>}
    ELSE LET hits == {c \in Chunks :
                         /\ store[c].text_similarity # NoMatch
                         /\ KeywordFilter(Documents[c], filters)}
             Sim == [c \in hits |-> store[c].text_similarity]
             \* float(row.similarity) if row.similarity else 0.5
             Score(c) == IF Sim[c] = 0 THEN KeywordFallback ELSE Sim[c]
         IN  {[i \in 1..Len(l) |->
                 [chunk_id |-> l[i],
                  document_id |-> Documents[l[i]].document_id,
                  similarity |-> Score(l[i])]] :
                 l \in OrderedLimited(hits, Sim, EffectiveTopK(top_k))}

\* One of the two loops of hybrid_search: the rows whose chunk_id was not
\* seen are appended with their search_type.
RECURSIVE AddUnseen(_, _, _)
AddUnseen(combined, rows, search_type) ==
    IF rows = <<>> THEN combined
    ELSE LET row  == rows[1]
             seen == {combined[i].chunk_id : i \in 1..Len(combined)}
             next == IF row.chunk_id \in seen THEN combined
                     ELSE Append(combined,
                                 [chunk_id |-> row.chunk_id,
                                  document_id |-> row.document_id,
                                  similarity |-> row.similarity,
                                  search_type |-> search_type])
         IN  AddUnseen(next, Tail(rows), search_type)

\* The merge with the keyword rows taken first.
CombineResultsKeywordFirst(vector_results, keyword_results) ==
    AddUnseen(AddUnseen(<<>>, keyword_results, "keyword"), vector_results, "vector")

CombineResults(vector_results, keyword_results) ==
    AddUnseen(AddUnseen(<<>>, vector_results, "vector"), keyword_results, "keyword")

\* combined_results.sort(key=similarity, reverse=True): stable, rows of
\* equal similarity keep their order.
RECURSIVE SortBySimilarity(_)
SortBySimilarity(rows) ==
    IF rows = <<>> THEN <<>>
    ELSE LET best == CHOOSE i \in 1..Len(rows) :
                        /\ \A j \in 1..Len(rows) :
                               rows[i].similarity >= rows[j].similarity
                        /\ \A j \in 1..(i - 1) :
                               rows[j].similarity # rows[i].similarity
             rest == [j \in 1..(Len(rows) - 1) |->
                         IF j < best THEN rows[j] ELSE rows[j + 1]]
         IN  <<rows[best]>> \o SortBySimilarity(rest)

\* The merge of hybrid_search.
MergeResults(vector_results, keyword_results, top_k) ==
    Take(SortBySimilarity(CombineResults(vector_results, keyword_results)),
         EffectiveTopK(top_k))

NoSearch == [state |-> "none"]

\* hybrid_search: what a call can come to.
HybridSearchOutcomes(store, top_k, filters, fault) ==
    IF top_k = NoTopK
    \* `top_k * 2` with top_k=None raises TypeError
    THEN {[raised |-> TRUE]}
    ELSE {IF v.raised
          THEN [raised |-> TRUE]
          ELSE [raised |-> FALSE, vector_results |-> v.rows, keyword_results |-> k,
                results |-> MergeResults(v.rows, k, top_k)] :
             v \in SearchDocuments(store, top_k * 2, filters, fault),
             k \in KeywordSearch(store, top_k * 2, filters, fault)}

HybridSearch(top_k, filters, fault) ==
    /\ search = NoSearch
    /\ \E o \in HybridSearchOutcomes(document_chunks, top_k, filters, fault) :
           search' =
               IF o.raised
               THEN [state |-> "raised", top_k |-> top_k,
                     filters |-> filters, fault |-> fault]
               ELSE [state |-> "returned", top_k |-> top_k,
                     filters |-> filters, fault |-> fault,
                     vector_results |-> o.vector_results,
                     keyword_results |-> o.keyword_results,
                     results |-> o.results]
    /\ UNCHANGED <<user_memories, user_memory_ids, memory_entries,
                   conversation_contexts, calls, sessions, document_chunks,
                   chatVars, entity_nodes, graph, path>>

(***************************************************************************)
(* MemoryService.get_memory_context_for_llm                                *)
(***************************************************************************)
\* The lines of the context, context_parts: the rules and titles that frame
\* the text, the header of a section, the header of a list inside the
\* context block, and a line of content.  The text of a line is the tuple of
\* the strings it is formatted from.
Banner(text) == [kind |-> "banner", text |-> <<text>>]
Header(text) == [kind |-> "header", text |-> <<text>>]
SubHeader(text) == [kind |-> "subheader", text |-> <<text>>]
Line(text) == [kind |-> "line", text |-> text]

\* `for key, value in d.items()`: a line "key.replace('_', ' ').title():
\* value" per item, in the order the stored mapping yields its items.
ItemLines(d) ==
    {[i \in 1..Len(keys) |-> Line(<<"title", keys[i], d[keys[i]]>>)] :
        keys \in ListsOfSet(DOMAIN d)}

\* A line "name (Status: status)" per project, and its description when it
\* has one.
RECURSIVE ProjectLines(_)
ProjectLines(projects) ==
    IF projects = <<>> THEN <<>>
    ELSE LET project == projects[1]
             name    == IF "name" \in DOMAIN project THEN project.name ELSE "Unknown"
             status  == IF "status" \in DOMAIN project THEN project.status
                        ELSE "Unknown"
         IN  <<Line(<<name, "Status", status>>)>>
             \o (IF "description" \in DOMAIN project
                 THEN <<Line(<<project.description>>)>> ELSE <<>>)
             \o ProjectLines(Tail(projects))

\* The lines of the domain expertise: the three keys the renderer prints,
\* each with its values joined.
ExpertiseLine(de, key, label) ==
    IF key \in DOMAIN de
    THEN <<Line(<<label>> \o (IF de[key].is_list THEN de[key].value
                              ELSE <<de[key].value>>))>>
    ELSE <<>>

\* A line per summary with its topic, and one with its resolution when it
\* has one.
RECURSIVE SummaryLines(_)
SummaryLines(summaries) ==
    IF summaries = <<>> THEN <<>>
    ELSE LET summary == summaries[1]
             topic   == IF "topic" \in DOMAIN summary THEN summary.topic
                        ELSE "Unknown"
         IN  <<Line(<<topic>>)>>
             \o (IF "resolution" \in DOMAIN summary /\ summary.resolution # ""
                 THEN <<Line(<<"resolution", summary.resolution>>)>> ELSE <<>>)
             \o SummaryLines(Tail(summaries))

\* A line per item of a list of the context.
ListLines(items) == [i \in 1..Len(items) |-> Line(<<items[i]>>)]

\* The block of the named context: nothing unless the context has key facts
\* or decisions; then its title, and each non-empty list under its header
\* with its last 5 items.
ContextBlock(conv_context) ==
    IF conv_context.key_facts # <<>> \/ conv_context.decisions_made # <<>>
    THEN <<Header(conv_context.title)>>
         \o (IF conv_context.key_facts # <<>>
             THEN <<SubHeader("Key Facts")>>
                  \o ListLines(LastN(conv_context.key_facts, 5))
             ELSE <<>>)
         \o (IF conv_context.decisions_made # <<>>
             THEN <<SubHeader("Decisions Made")>>
                  \o ListLines(LastN(conv_context.decisions_made, 5))
             ELSE <<>>)
         \o (IF conv_context.action_items # <<>>
             THEN <<SubHeader("Outstanding Action Items")>>
                  \o ListLines(LastN(conv_context.action_items, 5))
             ELSE <<>>)
    ELSE <<>>

\* get_memory_context_for_llm on the profile row of the user: the texts it
\* can return (as context_parts), with the table conversation_contexts as
\* the call leaves it.  The named context is fetched with
\* get_or_create_conversation_context, whose select raises when several
\* rows match.
GetMemoryContextForLlm(memory, table, u, include_conversation_context) ==
    LET named    == include_conversation_context # None
        table1   == IF named
                    THEN GetOrCreateConversationContext(
                             table, u, include_conversation_context, "project", None)
                    ELSE table
        ids      == ContextIds(table1, u, include_conversation_context)
        raised   == named /\ Cardinality(ids) > 1
        top      == <<Banner("rule"), Banner("PERSISTENT MEMORY - I REMEMBER YOU"),
                      Banner("rule")>>
        projects == IF memory.active_projects # <<>>
                    THEN <<Header("ACTIVE PROJECTS")>>
                         \o ProjectLines(memory.active_projects)
                    ELSE <<>>
        de       == memory.domain_expertise
        domain   == IF de # EmptyDict
                    THEN <<Header("DOMAIN EXPERTISE")>>
                         \o ExpertiseLine(de, "familiar_class_codes",
                                          "Familiar WC Class Codes")
                         \o ExpertiseLine(de, "states_worked", "States Experience")
                         \o ExpertiseLine(de, "wc_systems", "WC Systems")
                    ELSE <<>>
        recent   == IF memory.conversation_summaries # <<>>
                    THEN <<Header("RECENT CONVERSATIONS (I REMEMBER)")>>
                         \o SummaryLines(LastN(memory.conversation_summaries, 5))
                    ELSE <<>>
        topics   == IF memory.frequent_topics # <<>>
                    THEN <<Header("FREQUENTLY DISCUSSED TOPICS"),
                           Line(LastN(memory.frequent_topics, 10))>>
                    ELSE <<>>
        notes    == IF memory.custom_notes # None /\ memory.custom_notes # ""
                    THEN <<Header("IMPORTANT NOTES"), Line(<<memory.custom_notes>>)>>
                    ELSE <<>>
        block    == IF named
                    THEN ContextBlock(table1[CHOOSE i \in ids : TRUE])
                    ELSE <<>>
        bottom   == <<Banner("rule"),
                      Banner("Use this memory to provide personalized, context-aware responses."),
                      Banner("Reference past conversations and projects when relevant."),
                      Banner("rule")>>
    IN  IF raised
        THEN {[raised |-> TRUE, context_parts |-> <<>>, conversation_contexts |-> table1]}
        ELSE {[raised |-> FALSE,
               context_parts |->
                   top
                   \o (IF memory.employee_facts # EmptyDict
                       THEN <<Header("EMPLOYEE PROFILE")>> \o employee ELSE <<>>)
                   \o (IF memory.team_info # EmptyDict
                       THEN <<Header("TEAM INFORMATION")>> \o team ELSE <<>>)
                   \o projects \o domain \o recent \o topics \o notes \o block
                   \o bottom,
               conversation_contexts |-> table1] :
                 employee \in ItemLines(memory.employee_facts),
                 team \in ItemLines(memory.team_info)}

\* A call of get_memory_context_for_llm for user u, with or without a named
\* context; get_or_create_user_memory inserts the profile row of a user
\* that has none.
AssembleMemoryContext(u, include_conversation_context) ==
    LET memory == GetOrCreateUserMemory(user_memories, u)
    IN  /\ Len(calls) < MaxCalls
        /\ calls' = Append(calls, [op |-> "get_memory_context_for_llm", user |-> u,
                                   arg |-> include_conversation_context])
        /\ user_memories' = PutRow(user_memories, u, memory)
        /\ user_memory_ids' = InsertedUserMemory(user_memory_ids, u)
        /\ \E out \in GetMemoryContextForLlm(memory, conversation_contexts, u,
                                             include_conversation_context) :
              /\ conversation_contexts' = out.conversation_contexts
              /\ memory_context' =
                     [state |-> "done", user |-> u,
                      include_conversation_context |-> include_conversation_context,
                      raised |-> out.raised, context_parts |-> out.context_parts]
        /\ UNCHANGED <<memory_entries, sessions, document_chunks, search,
                       conversations, messages, turn, generation, entity_nodes, graph, path>>

(***************************************************************************)
(* LLMService.generate and RAGService.generate_with_context                *)
(***************************************************************************)
\* generate with the exception of the engine turned into an empty answer.
GenerateSwallowingErrors(engine) ==
    [raised |-> FALSE, content |-> IF engine = "ok" THEN "answer" ELSE ""]

\* generate: the answer of the completion engine; an HTTP error or any other
\* exception of the request is logged and raised again.
Generate(engine) ==
    IF engine = "ok" THEN [raised |-> FALSE, content |-> "answer"]
    ELSE [raised |-> TRUE]

\* The context parts generate_with_context builds from the rows retrieved:
\* "[Source i] From <document_title>:" and the content of the chunk, for
\* i = 1, 2, ... in the order of the rows.
ContextParts(rows) ==
    [i \in 1..Len(rows) |->
        [source |-> i, document_id |-> rows[i].document_id,
         chunk_id |-> rows[i].chunk_id]]

\* The sources list with the rows numbered as enumerate numbers them when
\* it is given no start.
SourcesNumberedFromZero(rows) ==
    [i \in 1..Len(rows) |->
        [index |-> i - 1, document_id |-> rows[i].document_id,
         chunk_id |-> rows[i].chunk_id, similarity |-> rows[i].similarity,
         search_type |-> rows[i].search_type]]

\* The sources list generate_with_context builds from the rows retrieved.
Sources(rows) ==
    [i \in 1..Len(rows) |->
        [index |-> i, document_id |-> rows[i].document_id,
         chunk_id |-> rows[i].chunk_id, similarity |-> rows[i].similarity,
         search_type |-> rows[i].search_type]]

\* generate_with_context: hybrid_search, then the prompt built from the rows
\* and the persistent memory, then llm_service.generate; nothing is caught.
\* steps names what was started, in order.
GenerateWithContext(store, top_k, filters, fault, engine) ==
    {IF o.raised
     THEN [raised |-> TRUE, steps |-> <<"retrieval_merge">>]
     ELSE LET response == Generate(engine)
              steps    == <<"retrieval_merge", "prompt_assembly", "completion_call">>
          IN  IF response.raised
              THEN [raised |-> TRUE, steps |-> steps]
              ELSE [raised |-> FALSE, steps |-> steps,
                    content |-> response.content, sources |-> Sources(o.results),
                    relevant_docs |-> o.results,
                    context_parts |-> ContextParts(o.results)] :
        o \in HybridSearchOutcomes(store, top_k, filters, fault)}

\* A call of generate_with_context on the chunk store.
GenerateWithContextCall(top_k, filters, fault, engine) ==
    /\ generation = NoGeneration
    /\ \E g \in GenerateWithContext(document_chunks, top_k, filters, fault, engine) :
           generation' = [state |-> "done", top_k |-> top_k, filters |-> filters,
                          fault |-> fault, engine |-> engine] @@ g
    /\ UNCHANGED <<user_memories, user_memory_ids, memory_entries,
                   conversation_contexts, calls, sessions, document_chunks,
                   search, conversations, messages, turn, memory_context, entity_nodes, graph, path>>

(***************************************************************************)
(* api/chat.py: send_message, with extract_and_store_facts                 *)
(***************************************************************************)
\* extract_and_store_facts: the (profile row, memory_entries) pairs it can
\* leave, and whether it raised.  `import re` is executed only inside the
\* branch of the project phrase and makes `re` a local name of the function,
\* so re.search at the class code raises UnboundLocalError when the branch
\* was not taken; what was committed before stays.
ExtractAndStoreFacts(memory, entries, u, content) ==
    LET project   == [name |-> content.project, last_mentioned |-> UtcNow]
        hasProject == content.project_phrase /\ content.project # None
        row1      == IF hasProject THEN ActiveProjectRow(memory, project) ELSE memory
        entries1  == IF hasProject THEN ActiveProjectEntries(entries, u, project)
                     ELSE {entries}
        rows2     == IF content.states # <<>>
                     THEN DomainExpertiseRows(
                              row1, [states_worked |-> ListValue(content.states)])
                     ELSE {row1}
        unbound   == ~content.project_phrase
        Rows3(row2) ==
            IF ~unbound /\ content.class_code # None
            THEN DomainExpertiseRows(
                     row2, [familiar_class_codes |->
                               ListValue(<<content.class_code>>)])
            ELSE {row2}
    IN  {[raised |-> unbound, memory |-> row3, entries |-> e] :
            row3 \in UNION {Rows3(row2) : row2 \in rows2}, e \in entries1}

\* db.rollback() with the transaction of the whole turn undone.
RollbackUndoingTurn(committed, start) == start

\* db.rollback() in the except branch of send_message: the session drops
\* what it has not committed; the tables keep what the commits made earlier
\* in the turn wrote (committed), not what they held when the turn started.
Rollback(committed, start) == committed

\* POST /messages.
SendMessage(u, conversation_id, content, context_key, engine) ==
    LET new      == conversation_id = NoConversation
        found    == /\ conversation_id \in DOMAIN conversations
                    /\ conversations[conversation_id].user_id = u
        id       == IF new THEN Len(conversations) + 1 ELSE conversation_id
        request  == [state |-> "done", user |-> u, conversation_id |-> id,
                     content |-> content, context_key |-> context_key,
                     engine |-> engine, new |-> new,
                     before |-> GetOrCreateUserMemory(user_memories, u),
                     messages_before |-> Len(messages)]
        memory0  == GetOrCreateUserMemory(user_memories, u)
        \* memory.total_conversations += 1 (new conversation)
        memory1  == IF new THEN [memory0 EXCEPT !.total_conversations = @ + 1]
                    ELSE memory0
        \* get_memory_context_for_llm(db, user, include_conversation_context)
        contexts1 == IF context_key # None
                     THEN GetOrCreateConversationContext(
                              conversation_contexts, u, context_key, "project", None)
                     ELSE conversation_contexts
        \* record_interaction: memory.total_messages += 1; commit.  The commit
        \* also writes the conversation, the counter above and the user message.
        memory2  == [memory1 EXCEPT !.total_messages = @ + 1]
        userMessage == [conversation_id |-> id, role |-> "user"]
        filters  == IF Teams[u] # None THEN [team |-> Teams[u]] ELSE EmptyDict
        before   == <<"memory_context", "record_interaction", "extract_facts">>
    IN  /\ Len(calls) < MaxCalls
        /\ calls' = Append(calls, [op |-> "send_message", user |-> u, arg |-> content])
        /\ UNCHANGED <<sessions, document_chunks, search, generation, memory_context,
                       entity_nodes, graph, path>>
        /\ IF ~new /\ ~found
           \* raise HTTPException(404, "Conversation not found")
           THEN /\ turn' = request @@ [status |-> 404, steps |-> <<>>]
                /\ UNCHANGED <<user_memories, user_memory_ids, memory_entries,
                               conversation_contexts, conversations, messages>>
           ELSE \E facts \in ExtractAndStoreFacts(memory2, memory_entries, u, content) :
                  /\ user_memory_ids' = InsertedUserMemory(user_memory_ids, u)
                  /\ memory_entries' = facts.entries
                  /\ IF facts.raised
                     \* the UnboundLocalError leaves the handler
                     THEN /\ user_memories' = PutRow(user_memories, u, facts.memory)
                          /\ conversation_contexts' = contexts1
                          /\ conversations' =
                                 IF new THEN Append(conversations,
                                                    [user_id |-> u, message_count |-> 0])
                                 ELSE conversations
                          /\ messages' = Append(messages, userMessage)
                          /\ turn' = request @@ [status |-> 500, steps |-> before]
                     ELSE LET topic   == FrequentTopicUpdate(facts.memory, content.topic)
                              memory3 == Commit(facts.memory, topic.obj, topic.assigned)
                          IN  /\ \E g \in GenerateWithContext(document_chunks, NoTopK,
                                                               filters, "none", engine) :
                                   IF g.raised
                                   \* except Exception: rollback; HTTPException(500)
                                   THEN /\ user_memories' =
                                               Rollback(PutRow(user_memories, u, memory3),
                                                        user_memories)
                                        /\ conversation_contexts' = contexts1
                                        /\ conversations' =
                                               Rollback(IF new
                                                        THEN Append(conversations,
                                                                    [user_id |-> u,
                                                                     message_count |-> 0])
                                                        ELSE conversations,
                                                        conversations)
                                        /\ messages' =
                                               Rollback(Append(messages, userMessage),
                                                        messages)
                                        /\ turn' = request @@
                                               [status |-> 500,
                                                steps |-> before \o <<"add_frequent_topic">>
                                                            \o g.steps \o <<"rollback">>]
                                   \* the assistant message with its sources;
                                   \* conversation.message_count += 2; commit;
                                   \* add_conversation_to_context when a key is given
                                   ELSE /\ user_memories' = PutRow(user_memories, u, memory3)
                                        /\ conversation_contexts' =
                                               IF context_key = None THEN contexts1
                                               ELSE LET ids == ContextIds(contexts1, u, context_key)
                                                        cid == CHOOSE i \in ids : TRUE
                                                        link == ConversationLinkUpdate(
                                                                    contexts1[cid], id,
                                                                    <<>>, <<>>, <<>>)
                                                    IN  [contexts1 EXCEPT ![cid] =
                                                            Commit(contexts1[cid], link.obj,
                                                                   link.assigned)]
                                        /\ conversations' =
                                               IF new
                                               THEN Append(conversations,
                                                           [user_id |-> u,
                                                            message_count |-> 2])
                                               ELSE [conversations EXCEPT
                                                        ![id].message_count = @ + 2]
                                        /\ messages' =
                                               messages \o
                                               <<userMessage,
                                                 [conversation_id |-> id,
                                                  role |-> "assistant",
                                                  content |-> g.content,
                                                  sources |-> g.sources]>>
                                        /\ turn' = request @@
                                               [status |-> 200,
                                                steps |-> before \o <<"add_frequent_topic">>
                                                            \o g.steps
                                                            \o <<"record_response">>
                                                            \o (IF context_key = None
                                                                THEN <<>>
                                                                ELSE <<"link_context">>)]

(***************************************************************************)
(* api/chat.py: create_conversation and get_conversation_context           *)
(***************************************************************************)
\* POST /conversations: the conversation of the current user is committed,
\* linked to the context of the key when one is given
\* (add_conversation_to_context), and counted in total_conversations.
CreateConversation(u, context_key) ==
    LET id       == Len(conversations) + 1
        table    == GetOrCreateConversationContext(conversation_contexts, u,
                                                   context_key, "project", None)
        ids      == ContextIds(table, u, context_key)
        cid      == CHOOSE i \in ids : TRUE
        link     == ConversationLinkUpdate(table[cid], id, <<>>, <<>>, <<>>)
        \* scalar_one_or_none raises when several rows match
        raised   == context_key # None /\ Cardinality(ids) > 1
        memory   == GetOrCreateUserMemory(user_memories, u)
    IN  /\ Len(calls) < MaxCalls
        /\ calls' = Append(calls, [op |-> "create_conversation", user |-> u,
                                   arg |-> context_key])
        /\ conversations' = Append(conversations, [user_id |-> u, message_count |-> 0])
        /\ conversation_contexts' =
              IF context_key = None \/ raised THEN conversation_contexts
              ELSE [table EXCEPT ![cid] = Commit(table[cid], link.obj, link.assigned)]
        \* memory.total_conversations += 1; commit
        /\ user_memories' =
              IF raised THEN user_memories
              ELSE PutRow(user_memories, u,
                          [memory EXCEPT !.total_conversations = @ + 1])
        /\ user_memory_ids' =
              IF raised THEN user_memory_ids
              ELSE InsertedUserMemory(user_memory_ids, u)
        /\ UNCHANGED <<memory_entries, sessions, document_chunks, search, messages,
                       turn, generation, memory_context, entity_nodes, graph, path>>

\* GET /memory/contexts/{context_key}: get_or_create_conversation_context
\* for the current user.
GetConversationContext(u, context_key) ==
    /\ Handled("get_conversation_context", u, context_key)
    /\ conversation_contexts' =
          GetOrCreateConversationContext(conversation_contexts, u, context_key,
                                         "project", None)
    /\ UNCHANGED <<user_memories, user_memory_ids, memory_entries>>

\* The chunk store as one query sees it: per chunk, the cosine similarity
\* of its embedding to the query (in hundredths, or none when the chunk has
\* no embedding) and the trigram similarity of its content to the query (or
\* none when the content does not contain the query).
ChunkRows == [embedding_similarity : EmbeddingSimilarities,
              text_similarity : TextSimilarities]

EmptyStore == [c \in Chunks |-> [embedding_similarity |-> NoEmbedding,
                                 text_similarity |-> NoMatch]]

Init ==
    /\ user_memories = EmptyDict
    /\ user_memory_ids = <<>>
    /\ memory_entries = <<>>
    /\ conversation_contexts = <<>>
    /\ calls = <<>>
    /\ sessions = [r \in Requests |-> Idle]
    /\ document_chunks = EmptyStore
    /\ search = NoSearch
    /\ conversations = <<>>
    /\ messages = <<>>
    /\ turn = NoTurn
    /\ generation = NoGeneration
    /\ memory_context = NoMemoryContext
    /\ entity_nodes = {}
    /\ graph = {}
    /\ path = NoPath

InitSearch ==
    /\ user_memories = EmptyDict
    /\ user_memory_ids = <<>>
    /\ memory_entries = <<>>
    /\ conversation_contexts = <<>>
    /\ calls = <<>>
    /\ sessions = [r \in Requests |-> Idle]
    /\ document_chunks \in [Chunks -> ChunkRows]
    /\ search = NoSearch
    /\ conversations = <<>>
    /\ messages = <<>>
    /\ turn = NoTurn
    /\ generation = NoGeneration
    /\ memory_context = NoMemoryContext
    /\ entity_nodes = {}
    /\ graph = {}
    /\ path = NoPath

NextProfile ==
    \E u \in Users :
        \/ \E topic \in Topics : AddFrequentTopic(u, topic)
        \/ \E topic \in Topics, resolution \in Resolutions,
              additional_context \in AdditionalContexts :
              AddConversationSummary(u, topic, resolution, additional_context)
        \/ \E expertise \in ExpertiseInputs : UpdateDomainExpertise(u, expertise)

SpecProfile == Init /\ [][NextProfile]_vars

NextProjects ==
    \E u \in Users :
        \/ \E project \in ProjectInputs : AddActiveProject(u, project)

SpecProjects == Init /\ [][NextProjects]_vars

NextContext ==
    \E u \in Users :
        \/ \E context_key \in ContextKeys, conversation_id \in ConversationIds,
              link \in LinkInputs :
              AddConversationToContext(u, context_key, conversation_id,
                                       link.key_facts, link.decisions,
                                       link.action_items)

SpecContext == Init /\ [][NextContext]_vars

NextConcurrent ==
    \E r \in Requests :
        \/ \E kind \in RequestKinds, u \in Users : LoadMemory(r, kind, u)
        \/ CommitCounters(r)

SpecConcurrent == Init /\ [][NextConcurrent]_vars

NextRace ==
    \E r \in Requests :
        \/ \E u \in Users, topic \in Topics : SelectUserMemory(r, u, topic)
        \/ CreateUserMemory(r)
        \/ CommitFrequentTopic(r)
        \/ Respond(r)

SpecRace == Init /\ [][NextRace]_vars

NextProjectLife ==
    \E u \in Users :
        \/ \E project \in ProjectInputs : AddActiveProject(u, project)
        \/ \E project \in ProjectInputs, completion_data \in CompletionInputs :
              CompleteProject(u, project.name, completion_data)

SpecProjectLife == Init /\ [][NextProjectLife]_vars

\* The mutators of the profile, each with the first of its arguments.
NextMutators ==
    \E u \in Users :
        \/ \E items \in FactsInputs : UpdateEmployeeFacts(u, items)
        \/ \E team_info \in TeamInputs : UpdateTeamInfo(u, team_info)
        \/ \E project \in {p \in ProjectInputs : DOMAIN p = {"name"}} :
              AddActiveProject(u, project)
        \/ \E project \in {p \in ProjectInputs : DOMAIN p = {"name"}} :
              CompleteProject(u, project.name, EmptyDict)
        \/ \E topic \in Topics, resolution \in Resolutions :
              AddConversationSummary(u, topic, resolution, EmptyDict)
        \/ \E expertise \in {e \in ExpertiseInputs : DOMAIN e = {"level"}} :
              UpdateDomainExpertise(u, expertise)
        \/ \E topic \in Topics : AddFrequentTopic(u, topic)

SpecMutators == Init /\ [][NextMutators]_vars

NextTurn ==
    \E u \in Users, conversation_id \in ConversationChoices, content \in MessageInputs,
       context_key \in ContextKeys \cup {None}, engine \in Engines :
        SendMessage(u, conversation_id, content, context_key, engine)

SpecTurn == Init /\ [][NextTurn]_vars

\* Requests of the two users, one after the other, on the memory endpoints
\* and the chat endpoints.
NextIsolation ==
    \E u \in Users :
        \/ AddActiveProject(u, [name |-> "Alpha"])
        \/ AddFrequentTopic(u, "Claims")
        \/ \E entry \in {e \in EntryInputs : e.tags = <<>>} : AddMemoryEntryCall(u, entry)
        \/ \E context_key \in ContextKeys : GetConversationContext(u, context_key)
        \/ \E context_key \in ContextKeys \cup {None} : CreateConversation(u, context_key)
        \/ \E conversation_id \in ConversationChoices,
              content \in {m \in MessageInputs : m.project # None},
              context_key \in ContextKeys \cup {None} :
              SendMessage(u, conversation_id, content, context_key, "ok")

SpecIsolation == Init /\ [][NextIsolation]_vars

NextGenerate ==
    \E top_k \in TopKs, filters \in FilterInputs, fault \in Faults, engine \in Engines :
        GenerateWithContextCall(top_k, filters, fault, engine)

SpecGenerate == InitSearch /\ [][NextGenerate]_vars

\* The memory service fills the profile and the contexts of a user, and the
\* context is assembled.
NextAssemble ==
    \E u \in Users :
        \/ \E items \in FactsInputs : UpdateEmployeeFacts(u, items)
        \/ \E team_info \in TeamInputs : UpdateTeamInfo(u, team_info)
        \/ \E project \in {p \in ProjectInputs : p.name = "Alpha"} :
              AddActiveProject(u, project)
        \/ \E additional_context \in AdditionalContexts :
              AddConversationSummary(u, "Claims", "Fixed in staging", additional_context)
        \/ \E expertise \in {e \in ExpertiseInputs :
                                 "states_worked" \in DOMAIN e =>
                                     Len(e.states_worked.value) = 1} :
              UpdateDomainExpertise(u, expertise)
        \/ AddFrequentTopic(u, "Claims")
        \/ \E context_key \in ContextKeys, link \in LinkInputs :
              AddConversationToContext(u, context_key, "conv1", link.key_facts,
                                       link.decisions, link.action_items)
        \/ \E context_key \in ContextKeys \cup {None} :
              AssembleMemoryContext(u, context_key)

SpecAssemble == Init /\ [][NextAssemble]_vars

NextEntries ==
    \E u \in Users :
        \/ \E entry \in EntryInputs : AddMemoryEntryCall(u, entry)

SpecEntries == Init /\ [][NextEntries]_vars

NextContextRace ==
    \E r \in Requests :
        \/ \E u \in Users, context_key \in ContextKeys, caller \in ContextRequests :
              SelectContext(r, u, context_key, caller)
        \/ CreateContext(r)
        \/ FinishContext(r)
        \/ RespondContext(r)

SpecContextRace == Init /\ [][NextContextRace]_vars

NextSearch ==
    \E top_k \in TopKs, filters \in FilterInputs, fault \in Faults :
        HybridSearch(top_k, filters, fault)

SpecSearch == InitSearch /\ [][NextSearch]_vars

(***************************************************************************)
(* Knowledge graph: the shortest path between two entities                 *)
(* (KnowledgeGraphService.get_entity_path and GET /knowledge/path).        *)
(***************************************************************************)
MaxDepth == 3

Entities == {"e1", "e2", "e3", "e4"}

\* The relationships a graph is drawn from: a cycle e1 - e2 - e3 - e4 - e1 of
\* typed, directed relationships, each with the id the store gives it.
Relationships ==
    {[id |-> 1, source |-> "e1", target |-> "e2", type |-> "USES"],
     [id |-> 2, source |-> "e2", target |-> "e3", type |-> "DEPENDS_ON"],
     [id |-> 3, source |-> "e3", target |-> "e4", type |-> "USES"],
     [id |-> 4, source |-> "e4", target |-> "e1", type |-> "RELATED_TO"]}

\* What the graph store does with the query text: the upper bound of the
\* variable-length pattern is written as the parameter $max_depth, which the
\* store either takes or rejects when it parses the query.
BoundParameters == {"accepted", "rejected"}

\* The node at the other end of relationship r seen from node n (the pattern
\* -[*]- matches a relationship in either direction).
OtherEnd(r, n) == IF r.source = n THEN r.target ELSE r.source

\* The paths of exactly k relationships that start at node source_id; a path
\* uses no relationship twice.
RECURSIVE PathsFrom(_, _, _)
PathsFrom(g, source_id, k) ==
    IF k = 0
    THEN {[nodes |-> <<source_id>>, relationships |-> <<>>]}
    ELSE {[nodes |-> Append(p.nodes, OtherEnd(r, p.nodes[Len(p.nodes)])),
           relationships |-> Append(p.relationships, r)] :
            <<p, r>> \in
              {pr \in PathsFrom(g, source_id, k - 1) \X g :
                  /\ pr[1].nodes[Len(pr[1].nodes)] \in {pr[2].source, pr[2].target}
                  /\ \A i \in 1..Len(pr[1].relationships) :
                        pr[1].relationships[i] # pr[2]}}

\* The paths of exactly k relationships from source_id to target_id.
PathsBetween(g, source_id, target_id, k) ==
    {p \in PathsFrom(g, source_id, k) : p.nodes[Len(p.nodes)] = target_id}

\* MATCH path = shortestPath((source)-[*1..max_depth]-(target)): the paths
\* of the least number of relationships in 1..max_depth, if there is one.
ShortestPaths(g, source_id, target_id, max_depth) ==
    LET lengths == {k \in 1..max_depth :
                       PathsBetween(g, source_id, target_id, k) # {}}
    IN  IF lengths = {} THEN {}
        ELSE PathsBetween(g, source_id, target_id,
                          CHOOSE k \in lengths : \A j \in lengths : k <= j)

\* RETURN [node in nodes(path) | {id, ...}], [rel in relationships(path) |
\* {type: type(rel)}].
PathRecord(p) ==
    [returned |-> "path",
     nodes |-> [i \in 1..Len(p.nodes) |-> [id |-> p.nodes[i]]],
     relationships |-> [i \in 1..Len(p.relationships) |->
                           [type |-> p.relationships[i].type]]]

NoRecord == [returned |-> "None", nodes |-> <<>>, relationships |-> <<>>]

\* KnowledgeGraphService.get_entity_path: the outcomes of the call. The
\* query raises when the store rejects it; otherwise record =
\* result.single() is the one row of a shortest path, or None.
GetEntityPath(g, source_id, target_id, max_depth, store) ==
    LET found == ShortestPaths(g, source_id, target_id, max_depth)
    IN  IF store = "rejected"
        THEN {[raised |-> TRUE] @@ NoRecord}
        ELSE IF found = {}
        THEN {[raised |-> FALSE] @@ NoRecord}
        ELSE {[raised |-> FALSE] @@ PathRecord(p) : p \in found}

\* GET /knowledge/path.
GetEntityPathRequest(source_id, target_id, max_depth, store) ==
    /\ path = NoPath
    /\ \E out \in GetEntityPath(graph, source_id, target_id, max_depth, store) :
          path' = [state |-> "done", source_id |-> source_id,
                   target_id |-> target_id, max_depth |-> max_depth,
                   store |-> store, raised |-> out.raised,
                   returned |-> out.returned, nodes |-> out.nodes,
                   relationships |-> out.relationships,
                   \* an exception of the service is not caught (500);
                   \* if not path: raise HTTPException(404)
                   status |-> IF out.raised THEN 500
                              ELSE IF out.returned = "None" THEN 404
                              ELSE 200]
    /\ UNCHANGED <<user_memories, user_memory_ids, memory_entries,
                   conversation_contexts, calls, sessions, document_chunks,
                   search, chatVars, entity_nodes, graph>>

\* relationship_type of create_relationship: identifiers chosen by the
\* caller.
RelationshipTypes == {"USES", "DEPENDS_ON"}

\* The ids of create_relationship requests: the ids of three entities, one
\* of which the store may not hold.
EndpointIds == {"e1", "e2", "e3"}

\* The id the store gives the next relationship.
NextRelationshipId(g) ==
    IF g = {} THEN 1
    ELSE 1 + CHOOSE n \in {r.id : r \in g} : \A r \in g : r.id <= n

\* create_relationship with MERGE in place of CREATE: a relationship of the
\* same type between the same nodes is matched, not created again.
CreateRelationshipMerged(nodes, g, source_id, target_id, relationship_type) ==
    IF source_id \in nodes /\ target_id \in nodes
    THEN [returned |-> TRUE,
          graph |->
              IF \E r \in g : /\ r.source = source_id
                              /\ r.target = target_id
                              /\ r.type = relationship_type
              THEN g
              ELSE g \cup {[id |-> NextRelationshipId(g), source |-> source_id,
                            target |-> target_id, type |-> relationship_type]}]
    ELSE [returned |-> FALSE, graph |-> g]

\* KnowledgeGraphService.create_relationship: the two MATCH clauses give one
\* row when both nodes are in the store and none otherwise; CREATE adds a
\* relationship for the row and RETURN r gives it back, so result.single()
\* is a record exactly when the relationship was created.
CreateRelationship(nodes, g, source_id, target_id, relationship_type) ==
    IF source_id \in nodes /\ target_id \in nodes
    THEN [returned |-> TRUE,
          graph |-> g \cup {[id |-> NextRelationshipId(g), source |-> source_id,
                             target |-> target_id, type |-> relationship_type]}]
    ELSE [returned |-> FALSE, graph |-> g]

\* POST /knowledge/relationships: 200 when the service returned True, and
\* HTTP 400 otherwise.
CreateRelationshipRequest(u, source_id, target_id, relationship_type) ==
    LET out == CreateRelationship(entity_nodes, graph, source_id, target_id,
                                  relationship_type)
    IN  /\ Len(calls) < MaxCalls
        /\ calls' = Append(calls,
                           [op |-> "create_relationship", user |-> u,
                            arg |-> [source_id |-> source_id, target_id |-> target_id,
                                     relationship_type |-> relationship_type],
                            returned |-> out.returned,
                            status |-> IF out.returned THEN 200 ELSE 400])
        /\ graph' = out.graph
        /\ UNCHANGED <<user_memories, user_memory_ids, memory_entries,
                       conversation_contexts, sessions, document_chunks, search,
                       chatVars, entity_nodes, path>>

\* The graph store holds some of the entities and no relationship yet.
InitRelationships ==
    /\ user_memories = EmptyDict
    /\ user_memory_ids = <<>>
    /\ memory_entries = <<>>
    /\ conversation_contexts = <<>>
    /\ calls = <<>>
    /\ sessions = [r \in Requests |-> Idle]
    /\ document_chunks = EmptyStore
    /\ search = NoSearch
    /\ conversations = <<>>
    /\ messages = <<>>
    /\ turn = NoTurn
    /\ generation = NoGeneration
    /\ memory_context = NoMemoryContext
    /\ entity_nodes \in SUBSET EndpointIds
    /\ graph = {}
    /\ path = NoPath

NextRelationships ==
    \E source_id \in EndpointIds, target_id \in EndpointIds,
       relationship_type \in RelationshipTypes :
        CreateRelationshipRequest("u1", source_id, target_id, relationship_type)

SpecRelationships == InitRelationships /\ [][NextRelationships]_vars

InitPath ==
    /\ user_memories = EmptyDict
    /\ user_memory_ids = <<>>
    /\ memory_entries = <<>>
    /\ conversation_contexts = <<>>
    /\ calls = <<>>
    /\ sessions = [r \in Requests |-> Idle]
    /\ document_chunks = EmptyStore
    /\ search = NoSearch
    /\ conversations = <<>>
    /\ messages = <<>>
    /\ turn = NoTurn
    /\ generation = NoGeneration
    /\ memory_context = NoMemoryContext
    /\ entity_nodes = Entities
    /\ graph \in SUBSET Relationships
    /\ path = NoPath

NextPath ==
    \E source_id \in Entities, target_id \in Entities, max_depth \in 1..MaxDepth,
       store \in BoundParameters :
        /\ source_id # target_id
        /\ GetEntityPathRequest(source_id, target_id, max_depth, store)

SpecPath == InitPath /\ [][NextPath]_vars

(***************************************************************************)
(* Properties of the Memory Profile Store and the Conversation Context     *)
(* Linker.                                                                 *)
(***************************************************************************)
\* The arguments of the calls of handler op made for user u, in call order.
CallArgs(op, u) ==
    LET made == SelectSeq(calls, LAMBDA c : c.op = op /\ c.user = u)
    IN  [i \in 1..Len(made) |-> made[i].arg]

C2_ProjectUpdatedInPlace ==
    LET RECURSIVE Folded(_)
        Folded(projects) ==
            IF Len(projects) = 1 THEN projects[1]
            ELSE DictUpdate(Folded(SubSeq(projects, 1, Len(projects) - 1)),
                            projects[Len(projects)])
    IN  \A u \in Users :
            LET passed == CallArgs("add_active_project", u)
            IN  \A name \in {passed[i].name : i \in 1..Len(passed)} :
                    LET stored == user_memories[u].active_projects
                        same   == SelectSeq(passed, LAMBDA q : q.name = name)
                        hits   == {i \in 1..Len(stored) :
                                       DictGet(stored[i], "name") = name}
                    IN  Len(same) >= 2 =>
                            /\ Cardinality(hits) = 1
                            /\ \A i \in hits : stored[i] = Folded(same)

\* C3: after n calls of add_conversation_summary for a user,
\* conversation_summaries holds exactly the most recent min(n, 50) summaries
\* passed, in call order.
C3_SummariesAreMostRecent ==
    \A u \in DOMAIN user_memories :
        user_memories[u].conversation_summaries =
            LastN(CallArgs("add_conversation_summary", u), MaxSummaries)

\* C8: after add_conversation_to_context calls for a user and a context
\* key, a conversation id that every one of the calls passed is in
\* conversation_ids exactly once, no id is there twice, and key_facts,
\* decisions_made and action_items are the concatenation, in call order and
\* without deduplication, of the lists passed (a fact passed in two calls
\* is there twice).
C8_LinkIdempotentFactsAccumulate ==
    LET RECURSIVE Concat(_)
        Concat(lists) ==
            IF lists = <<>> THEN <<>>
            ELSE Concat(SubSeq(lists, 1, Len(lists) - 1)) \o lists[Len(lists)]
        Count(list, x) == Cardinality({j \in 1..Len(list) : list[j] = x})
    IN  \A u \in Users, context_key \in ContextKeys :
            LET links == SelectSeq(CallArgs("add_conversation_to_context", u),
                                   LAMBDA a : a.context_key = context_key)
            IN  links # <<>> =>
                  \A id \in ContextIds(conversation_contexts, u, context_key) :
                    LET context == conversation_contexts[id]
                    IN  /\ \A c \in ConversationIds :
                              /\ Count(context.conversation_ids, c) <= 1
                              /\ (\A i \in 1..Len(links) : links[i].conversation_id = c)
                                     => Count(context.conversation_ids, c) = 1
                        /\ context.key_facts =
                              Concat([i \in 1..Len(links) |-> links[i].key_facts])
                        /\ context.decisions_made =
                              Concat([i \in 1..Len(links) |-> links[i].decisions])
                        /\ context.action_items =
                              Concat([i \in 1..Len(links) |-> links[i].action_items])

\* C9: after update_domain_expertise calls that pass lists for a key, the
\* value stored for that key holds exactly the union of the elements of all
\* the lists passed, each element once.
C9_ExpertiseListsAreSetUnion ==
    \A u \in Users :
        LET passed == CallArgs("update_domain_expertise", u)
            keys   == {k \in UNION {DOMAIN passed[i] : i \in 1..Len(passed)} :
                          \E i \in 1..Len(passed) :
                              k \in DOMAIN passed[i] /\ passed[i][k].is_list}
        IN  \A k \in keys :
                LET stored == user_memories[u].domain_expertise
                    union  == UNION {Range(passed[i][k].value) :
                                  i \in {j \in 1..Len(passed) : k \in DOMAIN passed[j]}}
                IN  /\ k \in DOMAIN stored
                    /\ Range(stored[k].value) = union
                    /\ Len(stored[k].value) = Cardinality(union)

\* C10: total_conversations and total_messages of a profile never decrease
\* from one state to the next, also when requests of the user overlap.
C10_CountersNeverDecrease ==
    [][\A u \in DOMAIN user_memories :
          /\ user_memories'[u].total_conversations
                 >= user_memories[u].total_conversations
          /\ user_memories'[u].total_messages
                 >= user_memories[u].total_messages]_vars

(***************************************************************************)
(* Properties of the Retrieval Merger.                                     *)
(***************************************************************************)
\* The chunk ids of a list of rows.
ChunkIds(rows) == {rows[i].chunk_id : i \in 1..Len(rows)}

\* C4: in the result of hybrid_search no chunk_id appears more than once,
\* and a chunk returned by both sub-queries appears with the similarity of
\* the vector sub-query and search_type "vector".
C4_VectorWinsOnDuplicate ==
    search.state = "returned" =>
        /\ \A i, j \in 1..Len(search.results) :
               search.results[i].chunk_id = search.results[j].chunk_id => i = j
        /\ \A i \in 1..Len(search.results), v \in 1..Len(search.vector_results) :
               (/\ search.vector_results[v].chunk_id = search.results[i].chunk_id
                /\ search.results[i].chunk_id \in ChunkIds(search.keyword_results))
               => /\ search.results[i].search_type = "vector"
                  /\ search.results[i].similarity
                         = search.vector_results[v].similarity

\* A hybrid_search returned a chunk that both sub-queries returned, with
\* different similarities.
C4_Witness ==
    /\ search.state = "returned"
    /\ \E i \in 1..Len(search.results),
          v \in 1..Len(search.vector_results),
          k \in 1..Len(search.keyword_results) :
          /\ search.vector_results[v].chunk_id = search.results[i].chunk_id
          /\ search.keyword_results[k].chunk_id = search.results[i].chunk_id
          /\ search.keyword_results[k].similarity
                 > search.vector_results[v].similarity

\* C5: the result of hybrid_search(query, top_k, filters) is ordered by
\* non-increasing similarity, has at most top_k rows, and consists of the
\* top_k highest-similarity candidates of the deduplicated union of the two
\* sub-query results.
C5_TopKBySimilarity ==
    search.state = "returned" =>
        LET results    == search.results
            candidates == ChunkIds(search.vector_results)
                              \cup ChunkIds(search.keyword_results)
            Score(c) ==
                IF c \in ChunkIds(search.vector_results)
                THEN (CHOOSE r \in Range(search.vector_results) : r.chunk_id = c).similarity
                ELSE (CHOOSE r \in Range(search.keyword_results) : r.chunk_id = c).similarity
        IN  /\ Len(results) <= search.top_k
            /\ \A i, j \in 1..Len(results) :
                   i < j => results[i].similarity >= results[j].similarity
            /\ ChunkIds(results) \subseteq candidates
            /\ Len(results) = IF Cardinality(candidates) < search.top_k
                              THEN Cardinality(candidates) ELSE search.top_k
            /\ \A i \in 1..Len(results) :
                   /\ results[i].similarity = Score(results[i].chunk_id)
                   /\ \A c \in candidates \ ChunkIds(results) :
                          Score(c) <= results[i].similarity

\* C6: every chunk in a hybrid_search result satisfies all the filters
\* supplied (team, tags, document_type), whichever sub-query produced it
\* (stated for the searches with top_k >= 1).
C6_ResultsSatisfyFilters ==
    (search.state = "returned" /\ search.top_k >= 1) =>
        \A i \in 1..Len(search.results) :
            LET doc == Documents[search.results[i].chunk_id]
                filters == search.filters
            IN  /\ "document_type" \in DOMAIN filters
                       => doc.mime_type = filters.document_type
                /\ "tags" \in DOMAIN filters => doc.tags \cap filters.tags # {}
                /\ "team" \in DOMAIN filters
                       => filters.team \in doc.team_access \/ doc.is_public

\* C7: when a sub-query of hybrid_search fails (the embedding request or a
\* chunk store query), hybrid_search still returns: the failed path
\* contributes no rows and the rows of the other path are returned (stated
\* for the searches with top_k >= 1).
C7_SubQueryFailureDegrades ==
    (/\ search # NoSearch
     /\ search.top_k >= 1
     /\ search.fault # "none") =>
        /\ search.state = "returned"
        /\ search.fault \in {"embedding_raises", "embedding_empty",
                              "vector_query_fails", "both_queries_fail"}
               => /\ search.vector_results = <<>>
                  /\ \A i \in 1..Len(search.results) :
                         search.results[i].search_type = "keyword"
        /\ search.fault \in {"keyword_query_fails", "both_queries_fail"}
               => /\ search.keyword_results = <<>>
                  /\ \A i \in 1..Len(search.results) :
                         search.results[i].search_type = "vector"
        /\ search.fault # "both_queries_fail"
               => Len(search.results) =
                      LET other == Len(search.vector_results)
                                       + Len(search.keyword_results)
                      IN  IF other < search.top_k THEN other ELSE search.top_k

(***************************************************************************)
(* Properties of requests that overlap.                                    *)
(***************************************************************************)
\* Requests r1 and r2 both went through add_frequent_topic on the profile of
\* one user while the other held it, with different topics that the profile
\* each of them loaded did not have.
Raced(r1, r2) ==
    /\ r1 # r2
    /\ sessions[r1].pc = "done" /\ sessions[r2].pc = "done"
    /\ sessions[r1].user = sessions[r2].user
    /\ r1 \in sessions[r2].overlapped \/ r2 \in sessions[r1].overlapped
    /\ "memory" \in DOMAIN sessions[r1] /\ "memory" \in DOMAIN sessions[r2]
    /\ sessions[r1].topic # sessions[r2].topic
    /\ sessions[r1].topic \notin Range(sessions[r1].memory.frequent_topics)
    /\ sessions[r2].topic \notin Range(sessions[r2].memory.frequent_topics)

\* C11: two requests of one user that overlap in add_frequent_topic with
\* different new topics both end without an error, whatever the other one
\* wrote in between (no lock, no version check), and the profile they leave
\* never holds both topics: at most one of the two updates is present.
C11_ConcurrentUpdateLostSilently ==
    \A r1, r2 \in Requests :
        Raced(r1, r2) =>
            /\ sessions[r1].status = "ok"
            /\ sessions[r2].status = "ok"
            /\ LET topics == Range(user_memories[sessions[r1].user].frequent_topics)
               IN  ~(sessions[r1].topic \in topics /\ sessions[r2].topic \in topics)

\* Two overlapping requests both ended without an error and exactly one of
\* the two topics is in the profile.
C11_Witness ==
    \E r1, r2 \in Requests :
        /\ Raced(r1, r2)
        /\ sessions[r1].status = "ok" /\ sessions[r2].status = "ok"
        /\ LET topics == Range(user_memories[sessions[r1].user].frequent_topics)
           IN  sessions[r1].topic \notin topics /\ sessions[r2].topic \in topics

\* C18: the table user_memories never holds two rows of one user, also when
\* requests of a user without a profile overlap in
\* get_or_create_user_memory, and the profile a request has just created has
\* every mapping and sequence field empty, no notes, and both counters 0.
C18_OneProfilePerUserCreatedEmpty ==
    /\ \A i, j \in 1..Len(user_memory_ids) :
           user_memory_ids[i] = user_memory_ids[j] => i = j
    /\ \A u \in Users :
           (u \in DOMAIN user_memories) <=> (\E i \in 1..Len(user_memory_ids) :
                                                user_memory_ids[i] = u)
    /\ \A r \in Requests :
           (sessions[r].pc = "profile_loaded" /\ sessions[r].created) =>
               LET memory == sessions[r].memory
               IN  /\ \A f \in {"employee_facts", "team_info", "company_knowledge",
                                 "domain_expertise", "tech_preferences",
                                 "learning_progress"} : DOMAIN memory[f] = {}
                   /\ \A f \in {"active_projects", "project_history",
                                 "conversation_summaries", "frequent_topics"} :
                          Len(memory[f]) = 0
                   /\ memory.total_conversations = 0
                   /\ memory.total_messages = 0

\* Two requests of a user without a profile both found no row; one created
\* the profile and the insert of the other was refused.
C18_Witness ==
    \E r1, r2 \in Requests :
        /\ sessions[r1].pc = "profile_loaded" /\ sessions[r1].created
        /\ sessions[r2].pc = "done" /\ sessions[r2].status = "error"
        /\ sessions[r2].user = sessions[r1].user
        /\ r1 \in sessions[r2].overlapped

\* C17: no step leaves two rows of conversation_contexts with the same
\* (user_id, context_key), whatever the order and the overlap of the
\* get_or_create_conversation_context, add_conversation_to_context and
\* get_memory_context_for_llm calls, and no step changes the title of a row
\* that exists.
C17_OneContextPerKeyTitleKept ==
    [][/\ \A i, j \in DOMAIN conversation_contexts' :
            (/\ conversation_contexts'[i].user_id = conversation_contexts'[j].user_id
             /\ conversation_contexts'[i].context_key
                    = conversation_contexts'[j].context_key) => i = j
       /\ \A i \in DOMAIN conversation_contexts :
            conversation_contexts'[i].title = conversation_contexts[i].title]_vars

(***************************************************************************)
(* Properties of the memory entries.                                       *)
(***************************************************************************)
\* C16: after any sequence of add_memory_entry calls, handled one at a time,
\* memory_entries has exactly one row per (user_id, category, key) written,
\* and that row has the value and the confidence of the last call for the
\* key and, as tags, the union of the tags of all the calls for the key.
C16_EntryUpsertedByKey ==
    /\ \A i, j \in DOMAIN memory_entries :
           (/\ memory_entries[i].user_id = memory_entries[j].user_id
            /\ memory_entries[i].category = memory_entries[j].category
            /\ memory_entries[i].key = memory_entries[j].key) => i = j
    /\ \A u \in Users :
           LET passed == CallArgs("add_memory_entry", u)
           IN  \A n \in 1..Len(passed) :
                   LET same == SelectSeq(passed,
                                   LAMBDA e : /\ e.category = passed[n].category
                                              /\ e.key = passed[n].key)
                       last == same[Len(same)]
                       ids  == EntryIds(memory_entries, u, last.category, last.key)
                   IN  /\ Cardinality(ids) = 1
                       /\ \A i \in ids :
                              /\ memory_entries[i].value = last.value
                              /\ memory_entries[i].confidence = last.confidence
                              /\ Range(memory_entries[i].tags) =
                                     UNION {Range(same[k].tags) : k \in 1..Len(same)}
    /\ Len(memory_entries) =
           Cardinality({<<calls[n].user, calls[n].arg.category, calls[n].arg.key>> :
                           n \in {m \in 1..Len(calls) : calls[m].op = "add_memory_entry"}})

\* A key was written twice, the second time with another value, another
\* confidence and a tag the row did not have.
C16_Witness ==
    \E u \in Users :
        LET passed == CallArgs("add_memory_entry", u)
        IN  /\ Len(passed) = 2
            /\ passed[1].category = passed[2].category
            /\ passed[1].value # passed[2].value
            /\ passed[1].confidence # passed[2].confidence
            /\ passed[1].tags # <<>>
            /\ Range(passed[2].tags) \ Range(passed[1].tags) # {}
            /\ Range(passed[1].tags) \ Range(passed[2].tags) # {}

(***************************************************************************)
(* Properties of the mutators of the profile.                              *)
(***************************************************************************)
\* The mutators that change data on every call (complete_project changes
\* none when no active project has the name).
ChangingMutators ==
    {"update_employee_facts", "update_team_info", "add_active_project",
     "add_conversation_summary", "update_domain_expertise", "add_frequent_topic"}

\* C15: once a mutator of the profile has completed for a user,
\* memory_entries holds a row of that user (the entry the mutator created or
\* updated for the data it changed); update_employee_facts leaves one per
\* fact and add_active_project one under "active_project_<name>".
C15_MutatorsWriteMemoryEntry ==
    \A n \in 1..Len(calls) :
        LET call == calls[n]
            rows == {i \in DOMAIN memory_entries :
                        memory_entries[i].user_id = call.user}
        IN  /\ call.op \in ChangingMutators => rows # {}
            /\ call.op = "update_employee_facts" =>
                   \A k \in DOMAIN call.arg :
                       EntryIds(memory_entries, call.user, "employee", k) # {}
            /\ call.op = "add_active_project" =>
                   EntryIds(memory_entries, call.user, "project",
                            "active_project_" \o call.arg.name) # {}

\* C19: a complete_project call for a name that an active project has takes
\* the first such project out of active_projects and adds it, updated with
\* completion_data and completed_at, at the end of project_history, whose
\* earlier entries stay; a call for a name no active project has leaves
\* active_projects and project_history as they were.
C19_CompletedProjectMovesToHistory ==
    [][(/\ Len(calls') = Len(calls) + 1
        /\ calls'[Len(calls')].op = "complete_project") =>
          LET call   == calls'[Len(calls')]
              before == GetOrCreateUserMemory(user_memories, call.user)
              after  == user_memories'[call.user]
              active == before.active_projects
              found  == FirstNamed(active, call.arg.name)
          IN  IF found # 0
              THEN /\ after.active_projects =
                          [i \in 1..(Len(active) - 1) |->
                              IF i < found THEN active[i] ELSE active[i + 1]]
                   /\ after.project_history =
                          Append(before.project_history,
                                 DictUpdate(DictUpdate(active[found],
                                                       call.arg.completion_data),
                                            [completed_at |-> UtcNow]))
              ELSE /\ after.active_projects = active
                   /\ after.project_history = before.project_history]_vars

(***************************************************************************)
(* Properties of a user turn.                                              *)
(***************************************************************************)
\* The position of a step in the steps of the turn, 0 when it was not run.
StepAt(step) ==
    LET at == {i \in 1..Len(turn.steps) : turn.steps[i] = step}
    IN  IF at = {} THEN 0 ELSE CHOOSE i \in at : \A j \in at : i <= j

\* The messages with role "assistant" the turn added to the table messages.
AssistantMessages ==
    {i \in (turn.messages_before + 1)..Len(messages) :
        /\ messages[i].role = "assistant"
        /\ messages[i].conversation_id = turn.conversation_id}

C13_TurnRunsRetrievalAssemblyCompletion ==
    (/\ turn.state = "done"
     /\ turn.engine = "ok"
     /\ turn.status # 404
     /\ turn.content.project_phrase) =>
        /\ turn.status = 200
        /\ 0 < StepAt("retrieval_merge")
        /\ StepAt("retrieval_merge") < StepAt("prompt_assembly")
        /\ StepAt("prompt_assembly") < StepAt("completion_call")
        /\ Cardinality(AssistantMessages) = 1
        /\ \A i \in AssistantMessages : "sources" \in DOMAIN messages[i]

\* C14: in a send_message turn the profile updates (record_interaction, the
\* facts extracted, add_frequent_topic) come after the response was
\* recorded, and a turn that recorded no response leaves total_messages,
\* active_projects, domain_expertise and frequent_topics of the profile as
\* they were.
C14_ProfileUpdatedAfterResponse ==
    turn.state = "done" =>
        LET after == GetOrCreateUserMemory(user_memories, turn.user)
        IN  IF StepAt("record_response") = 0
            THEN /\ after.total_messages = turn.before.total_messages
                 /\ after.active_projects = turn.before.active_projects
                 /\ after.domain_expertise = turn.before.domain_expertise
                 /\ after.frequent_topics = turn.before.frequent_topics
            ELSE \A step \in {"record_interaction", "extract_facts",
                               "add_frequent_topic"} :
                     StepAt(step) > StepAt("record_response")

(***************************************************************************)
(* Properties of the shortest path between two entities.                   *)
(***************************************************************************)
\* Some path of at most max_depth relationships joins the two entities of the
\* request handled.
PathWithinDepth ==
    \E k \in 1..path.max_depth :
        PathsBetween(graph, path.source_id, path.target_id, k) # {}

\* C20: get_entity_path gives an absent result (None), and no error,
\* whenever no path of at most max_depth relationships joins source and
\* target; when there is such a path it gives a sequence of nodes and
\* relationships from source to target with at most max_depth relationships.
C20_NoPathIsAbsentNotError ==
    path.state = "done" =>
        /\ ~PathWithinDepth =>
              /\ ~path.raised
              /\ path.returned = "None"
              /\ path.status \notin {404, 500}
        /\ PathWithinDepth =>
              /\ ~path.raised
              /\ path.returned = "path"
              /\ path.status = 200
              /\ Len(path.relationships) \in 1..path.max_depth
              /\ Len(path.nodes) = Len(path.relationships) + 1
              /\ path.nodes[1].id = path.source_id
              /\ path.nodes[Len(path.nodes)].id = path.target_id

\* C29: extract_and_store_facts returns without raising for every message
\* text, with or without 'working on' or 'project' in it: a send_message
\* turn on a conversation of the user goes on to add_frequent_topic after
\* the extraction of facts.
C29_ExtractFactsAlwaysReturns ==
    (turn.state = "done" /\ turn.status # 404) =>
        /\ StepAt("extract_facts") # 0
        /\ StepAt("add_frequent_topic") = StepAt("extract_facts") + 1

C27_StoredRowShowsEveryMutation ==
    \A u \in Users :
        LET stored   == GetOrCreateUserMemory(user_memories, u)
            topics   == CallArgs("add_frequent_topic", u)
            projects == CallArgs("add_active_project", u)
            passed   == CallArgs("add_conversation_summary", u)
        IN  /\ Len(topics) <= MaxFrequentTopics =>
                  Range(topics) \subseteq Range(stored.frequent_topics)
            /\ CallArgs("complete_project", u) = <<>> =>
                  \A i \in 1..Len(projects) :
                      \E j \in 1..Len(stored.active_projects) :
                          DictGet(stored.active_projects[j], "name") = projects[i].name
            /\ Len(passed) <= MaxSummaries =>
                  Len(stored.conversation_summaries) = Len(passed)

\* C25: team_info is last-write-wins per top-level key: after
\* update_team_info(patch) every key of the patch has the value of the patch
\* and every key of the previous team_info that the patch does not have
\* keeps its previous value.
C25_TeamInfoMergedPerKey ==
    [][\A u \in Users :
          (/\ Len(calls') = Len(calls) + 1
           /\ calls'[Len(calls')].op = "update_team_info"
           /\ calls'[Len(calls')].user = u) =>
              LET patch  == calls'[Len(calls')].arg
                  before == GetOrCreateUserMemory(user_memories, u).team_info
                  after  == user_memories'[u].team_info
              IN  /\ \A k \in DOMAIN patch : k \in DOMAIN after /\ after[k] = patch[k]
                  /\ \A k \in DOMAIN before \ DOMAIN patch :
                         k \in DOMAIN after /\ after[k] = before[k]]_vars

(***************************************************************************)
(* Properties of the ownership of the memory records.                      *)
(***************************************************************************)
\* The rows of a table (a sequence of rows with a user_id) that belong to
\* user u, by row id.
RowsOf(table, u) ==
    [i \in {j \in DOMAIN table : table[j].user_id = u} |-> table[i]]

\* C26: a request of user A on the memory and chat endpoints (a profile
\* mutator, add_memory_entry, get_conversation_context, create_conversation
\* with its link, send_message with record_interaction and the context
\* assembly) leaves the profile, the memory entries and the conversation
\* contexts of every other user B as they were, and after it every
\* conversation id stored in a context is the id of a conversation of the
\* user the context belongs to.
C26_RecordsOwnedByOneUser ==
    [][/\ \A a \in Users, b \in Users :
             (/\ a # b
              /\ Len(calls') = Len(calls) + 1
              /\ calls'[Len(calls')].user = a) =>
                 /\ (b \in DOMAIN user_memories') = (b \in DOMAIN user_memories)
                 /\ b \in DOMAIN user_memories => user_memories'[b] = user_memories[b]
                 /\ RowsOf(memory_entries', b) = RowsOf(memory_entries, b)
                 /\ RowsOf(conversation_contexts', b) = RowsOf(conversation_contexts, b)
       /\ \A i \in DOMAIN conversation_contexts' :
             \A id \in Range(conversation_contexts'[i].conversation_ids) :
                 /\ id \in DOMAIN conversations'
                 /\ conversations'[id].user_id = conversation_contexts'[i].user_id]_vars

\* Both users have a profile and a context of the same key with a
\* conversation linked, and a send_message of one user on the conversation
\* of the other was answered 404.
C26_Witness ==
    /\ Users \subseteq DOMAIN user_memories
    /\ \A u \in Users :
          \E i \in DOMAIN conversation_contexts :
              /\ conversation_contexts[i].user_id = u
              /\ conversation_contexts[i].context_key = "WC_Migration"
              /\ conversation_contexts[i].conversation_ids # <<>>
    /\ turn.state = "done"
    /\ turn.status = 404

(***************************************************************************)
(* Properties of the sources of a generated answer.                        *)
(***************************************************************************)
\* C24: in generate_with_context the sources list is as long as the list
\* of rows retrieved, and for every i from 1 the i-th row is rendered as
\* [Source i] and the i-th source has index i and the document_id,
\* chunk_id, similarity and search_type of that row.
C24_SourcesMirrorResults ==
    (generation.state = "done" /\ ~generation.raised) =>
        LET rows == generation.relevant_docs
        IN  /\ Len(generation.sources) = Len(rows)
            /\ Len(generation.context_parts) = Len(rows)
            /\ \A i \in 1..Len(rows) :
                  /\ generation.context_parts[i].source = i
                  /\ generation.context_parts[i].chunk_id = rows[i].chunk_id
                  /\ generation.sources[i] =
                         [index |-> i, document_id |-> rows[i].document_id,
                          chunk_id |-> rows[i].chunk_id,
                          similarity |-> rows[i].similarity,
                          search_type |-> rows[i].search_type]

\* An answer generated from two rows, one of the vector search and one of
\* the keyword search.
C24_Witness ==
    /\ generation.state = "done"
    /\ ~generation.raised
    /\ Len(generation.sources) = 2
    /\ generation.sources[1].index = 1
    /\ generation.sources[2].index = 2
    /\ {generation.sources[i].search_type : i \in 1..2} = {"vector", "keyword"}

(***************************************************************************)
(* Properties of the assembled memory context.                             *)
(***************************************************************************)
\* The step is a call of get_memory_context_for_llm.
AssembleStep ==
    /\ Len(calls') = Len(calls) + 1
    /\ calls'[Len(calls')].op = "get_memory_context_for_llm"

\* C21: the assembled memory context has no section header with no content
\* under it: every header is followed by a line of its section (in the
\* context block, by the header of a list and its lines), whatever the
\* profile holds, also an empty profile or a domain_expertise with none of
\* the keys the renderer prints.
C21_NoEmptySectionHeader ==
    (memory_context.state = "done" /\ ~memory_context.raised) =>
        LET parts == memory_context.context_parts
        IN  \A i \in 1..Len(parts) :
                /\ parts[i].kind = "header" =>
                      /\ i < Len(parts)
                      /\ parts[i + 1].kind \in {"line", "subheader"}
                /\ parts[i].kind = "subheader" =>
                      /\ i < Len(parts)
                      /\ parts[i + 1].kind = "line"

\* C22: when get_memory_context_for_llm is given a named context that holds
\* any key facts, decisions or action items, the text ends, after the
\* sections of the profile and before the closing lines, with the block of
\* the context: its title, then its last 5 key facts, last 5 decisions and
\* last 5 action items, each list in stored order.
C22_ContextBlockRendered ==
    [][(AssembleStep /\ ~memory_context'.raised
            /\ memory_context'.include_conversation_context # None) =>
          \A i \in ContextIds(conversation_contexts', memory_context'.user,
                              memory_context'.include_conversation_context) :
              LET context == conversation_contexts'[i]
                  parts   == memory_context'.context_parts
                  Listed(title, items) ==
                      IF items = <<>> THEN <<>>
                      ELSE <<SubHeader(title)>>
                           \o [j \in 1..Len(LastN(items, 5)) |->
                                  Line(<<LastN(items, 5)[j]>>)]
                  block   == <<Header(context.title)>>
                             \o Listed("Key Facts", context.key_facts)
                             \o Listed("Decisions Made", context.decisions_made)
                             \o Listed("Outstanding Action Items", context.action_items)
                  closing == 4
              IN  (context.key_facts # <<>> \/ context.decisions_made # <<>>
                       \/ context.action_items # <<>>) =>
                      /\ Len(parts) >= Len(block) + closing
                      /\ SubSeq(parts, Len(parts) - closing - Len(block) + 1,
                                Len(parts) - closing) = block]_vars

\* C23: a call of get_memory_context_for_llm, with or without a named
\* context, changes no stored state: the rows of user_memories,
\* conversation_contexts and memory_entries and all their fields are the
\* same before and after the call.
C23_AssemblyChangesNoStoredState ==
    [][AssembleStep =>
          /\ user_memories' = user_memories
          /\ conversation_contexts' = conversation_contexts
          /\ memory_entries' = memory_entries]_vars

(***************************************************************************)
(* Properties of create_relationship.                                      *)
(***************************************************************************)
\* C30: create_relationship returns true exactly when the source and the
\* target entity are both in the store, and then the graph has exactly one
\* more relationship, directed from the source to the target and of the
\* type given (also when a relationship of that type between the two is
\* already there); when one of the two is missing it returns false and the
\* graph is as it was.
C30_RelationshipCreatedIffBothExist ==
    [][(/\ Len(calls') = Len(calls) + 1
        /\ calls'[Len(calls')].op = "create_relationship") =>
          LET call == calls'[Len(calls')]
              both == /\ call.arg.source_id \in entity_nodes
                      /\ call.arg.target_id \in entity_nodes
          IN  /\ call.returned = both
              /\ entity_nodes' = entity_nodes
              /\ both =>
                    /\ graph \subseteq graph'
                    /\ Cardinality(graph') = Cardinality(graph) + 1
                    /\ \A r \in graph' \ graph :
                          /\ r.source = call.arg.source_id
                          /\ r.target = call.arg.target_id
                          /\ r.type = call.arg.relationship_type
              /\ ~both => graph' = graph]_vars

\* The same relationship was created twice, giving two parallel
\* relationships, and a request naming an entity the store does not hold
\* was answered false.
C30_Witness ==
    /\ \E r1 \in graph, r2 \in graph :
          /\ r1.id # r2.id
          /\ r1.source = r2.source
          /\ r1.target = r2.target
          /\ r1.type = r2.type
    /\ \E i \in 1..Len(calls) :
          /\ calls[i].op = "create_relationship"
          /\ ~calls[i].returned
          /\ calls[i].status = 400

====
